---- MODULE Spec2Model ----
(***************************************************************************)
(* A model of the task-maker-rust execution engine: the execution cache    *)
(* (task-maker-cache), the client session loop and its status poller       *)
(* (task-maker-exec/src/client.rs), the worker loop                        *)
(* (task-maker-exec/src/worker.rs) and the scheduler that ties them        *)
(* together.                                                               *)
(*                                                                         *)
(* The module holds several specifications over one set of variables; each *)
(* specification moves the variables of its own component and leaves the   *)
(* others at their initial value.                                          *)
(***************************************************************************)
EXTENDS Integers, Sequences, FiniteSets, TLC

\* ------------------------------------------------------------------ bounds

\* The number of Cache::insert calls of one run of CacheSpec.
MaxInserts == 2

\* The number of Status messages the client's poller sends in one session.
MaxStatus == 2

\* The number of Work messages the server sends to the worker of WorkerSpec.
MaxJobs == 2

\* The number of store, get, has_key and persist calls of one run of StoreSpec.
MaxStoreOps == 3

\* The calls made on the evicting store between two jumps of its clock, the
\* jumps of the clock, and the handles held on one blob.
MaxEvictOps == 2
MaxTicks == 1
MaxRefs == 1

\* The number of arrivals in the ready queue taken on its own.
MaxArrivals == 3

\* The largest limit of a GetContentCallback.
MaxLimit == 3

\* The length of the longest file given to capture_stream.
MaxFileLen == 2049

VARIABLES
    \* --- execution cache (task-maker-cache/src/lib.rs)
    cache_entries,   \* Cache::entries : CacheKey -> list of CacheEntry
    fs_keys,         \* the FileStoreKeys whose blob is in the server's file store
    cache_last,      \* the last call made on the cache and what it returned
    cache_inserts,   \* the number of insert calls made so far
    \* --- client session (task-maker-exec/src/client.rs)
    cl_pc,           \* where ExecutorClient::evaluate stands
    cl_ret,          \* what evaluate returned: "none", "ok" or "err"
    cl_missing,      \* missing_files: NoCount for None
    cl_file,         \* the provided file being sent, and the chunks left
    po_pc,           \* where the status poller thread stands
    file_mode,       \* the owner of the file_mode mutex
    done_flag,       \* the AtomicBool done
    c2s,             \* every message sent on the client-to-server channel
    srv,             \* the server's end as the client sees it
    \* --- worker (task-maker-exec/src/worker.rs)
    wk_pc,           \* where Worker::work stands
    wk_job,          \* WorkerCurrentJob::current_job: the job, or NoJob
    wk_handles,      \* the FileUuid -> FileStoreHandle map kept with the job
    wk_missing,      \* WorkerCurrentJob::missing_deps
    wk_sandboxes,    \* WorkerCurrentJob::current_sandboxes: <<>> for None
    wk_thread,       \* current_sandbox_thread and the state of that thread
    wk_mgr,          \* the locals of sandbox_group_manager
    wk_store,        \* the keys in the worker's file store
    w2s,             \* every message sent on the worker-to-server channel
    s2w,             \* the messages in flight from the server to the worker
    wsrv,            \* the server's end as the worker sees it
    \* --- scheduler (spec section 4.4) and its client session
    sc_phase,        \* "wait", "run", "done" (Done emitted) or "torn" (session dropped)
    sc_state,        \* the scheduling state of each execution
    sc_ready,        \* the ready queue
    sc_keys,         \* the resolved files: FileUuid -> FileStoreKey
    sc_results,      \* the result recorded for each completed execution
    sc_cached,       \* the executions completed from a cache Hit
    sc_workers,      \* the registry of workers: connection and current job slot
    sc_work,         \* every Work message sent, as <<worker, execution>>
    s2c,             \* every message sent on the server-to-client channel
    cl_rd,           \* how many messages of s2c the client has received
    sc_rd,           \* how many messages of c2s the scheduler has received
    \* --- the server's cache file (task-maker-cache/src/lib.rs, src/server.rs)
    cache_file,      \* what cache.bin holds
    cache_obj,       \* the Cache of the server: "none", "open" or "panicked"
    \* --- file store (task-maker-store/src/lib.rs)
    st_disk,         \* the blobs on disk: path -> bytes and timestamps
    st_info,         \* what the store_info file holds
    st_lock,         \* the holder of the exclusive lock on store_info
    st_proc,         \* per process: where FileStore::new stands, FileStore::data
    st_ops,          \* the number of FileStore calls made so far (the clock)
    st_last,         \* the last FileStore call and what it returned
    \* --- eviction in the server's file store (spec section 4.1)
    ev_disk,         \* the keys whose blob is on disk
    ev_items,        \* the index: key -> persistence timestamp
    ev_refs,         \* the number of FileStoreHandles held on each key
    ev_now,          \* the clock
    ev_last,         \* the last call, and the keys its eviction deleted
    ev_cfg,          \* max_cache and min_cache
    \* --- process_provided_file (task-maker-exec/src/client.rs)
    wr_dest,         \* the destination path: whether it exists, bytes, mode
    wr_call,         \* the arguments of the call being made
    wr_ret,          \* what the last call did: chunks consumed, result
    \* --- the ready queue on its own (spec section 4.4)
    rq_queue,        \* the ready queue
    rq_stamp,        \* when each group became ready: 0 for never
    rq_clock,        \* the number of arrivals so far
    rq_taken,        \* the last group taken, and the queue it was taken from
    \* --- capture_stream (task-maker-exec/src/worker.rs)
    cs_pc,           \* where the call stands: "idle", "loop" or "done"
    cs_file,         \* the file at path: whether it exists, and its bytes
    cs_count,        \* the argument count: NoCount for None
    cs_read,         \* the local read
    cs_result,       \* the local result
    cs_ret,          \* what was returned: "none", "None", "Some" or "err"; opened
    \* --- "less restrictive" (task-maker-cache/src/lib.rs, crate doc)
    lr_in,           \* three limits L1, L2, L3
    lr_out           \* whether Li is less restrictive than Lj, for every i, j

cacheVars == <<cache_entries, fs_keys, cache_last, cache_inserts>>

clientVars == <<cl_pc, cl_ret, cl_missing, cl_file, po_pc, file_mode, done_flag, c2s, srv>>

workerVars == <<wk_pc, wk_job, wk_handles, wk_missing, wk_sandboxes, wk_thread, wk_mgr,
                wk_store, w2s, s2w, wsrv>>

schedVars == <<sc_phase, sc_state, sc_ready, sc_keys, sc_results, sc_cached, sc_workers,
               sc_work, s2c, cl_rd, sc_rd>>

diskVars == <<cache_file, cache_obj>>

storeVars == <<st_disk, st_info, st_lock, st_proc, st_ops, st_last>>

evictVars == <<ev_disk, ev_items, ev_refs, ev_now, ev_last, ev_cfg>>

writeVars == <<wr_dest, wr_call, wr_ret>>

queueVars == <<rq_queue, rq_stamp, rq_clock, rq_taken>>

\* The variables of the operations that are checked on their own.
captureVars == <<cs_pc, cs_file, cs_count, cs_read, cs_result, cs_ret>>

limitVars == <<lr_in, lr_out>>

funVars == <<queueVars, captureVars, limitVars>>

vars == <<cacheVars, clientVars, workerVars, schedVars, diskVars, storeVars, evictVars,
          writeVars, funVars>>

\* =========================================================================
\* The execution cache
\* =========================================================================

\* The limit dimensions that are modelled: cpu time and memory.
Dims == {"cpu", "mem"}

\* An absent limit (None); "its value is assumed to be infinite".
NoLimit == -1

\* The limits the executions of the model are run with. (1, none) and (2, 1)
\* are incomparable; (1, 1) is more restrictive than every other one.
LimitSet ==
    { [cpu |-> NoLimit, mem |-> NoLimit],
      [cpu |-> 1, mem |-> NoLimit],
      [cpu |-> 2, mem |-> NoLimit],
      [cpu |-> 2, mem |-> 1],
      [cpu |-> 1, mem |-> 1] }

\* A mutant of LimGeq: only an absent limit on the left is infinite.
LimGeqLeft(a, b) == IF a = NoLimit THEN TRUE ELSE a >= b

\* A mutant of LimGeq: the values are compared as they are stored, an
\* absent limit below every present one.
LimGeqStored(a, b) == a >= b

\* Option<T> comparison behind "less restrictive": a is at least as large as
\* b, an absent limit being infinite.
LimGeq(a, b) ==
    IF a = NoLimit THEN TRUE
    ELSE IF b = NoLimit THEN FALSE
    ELSE a >= b

\* L1 is less restrictive than L2: no limit of L1 is more restrictive than
\* the corresponding one of L2.
LessRestrictive(L1, L2) == \A d \in Dims : LimGeq(L1[d], L2[d])

St(kind, arg) == [kind |-> kind, arg |-> arg]

Exceeds(used, lim) == lim # NoLimit /\ used > lim

\* Execution::status(exit_status, signal, resources): the status of a run
\* with the given resource usage under the execution's limits. The limits
\* are looked at before the signal and the exit status.
ExecStatus(limits, exit_status, signal, res) ==
    IF Exceeds(res.cpu, limits.cpu) THEN St("TimeLimitExceeded", 0)
    ELSE IF Exceeds(res.mem, limits.mem) THEN St("MemoryLimitExceeded", 0)
    ELSE IF signal # 0 THEN St("Signal", signal)
    ELSE IF exit_status # 0 THEN St("ReturnCode", exit_status)
    ELSE St("Success", 0)

\* An ExecutionResult; stdout, stderr and was_killed are copied untouched by
\* the cache and are left out.
MkResult(status, res, cached) ==
    [status |-> status, resources |-> res, was_cached |-> cached]

\* CacheKey::from_execution_group: the command and, per execution, the keys
\* of the inputs. The limits are not part of the key.
CacheKeyOf(group, file_keys) ==
    [cmd |-> group.cmd,
     ins |-> [i \in 1..Len(group.execs) |->
                {<<u, file_keys[u]>> : u \in group.execs[i].inputs}]]

\* CacheEntry::from_execution_group: per execution its result, its limits
\* and the key of each of its outputs.
EntryFromGroup(group, file_keys, result) ==
    [items |-> [i \in 1..Len(group.execs) |->
        [result  |-> result[i],
         limits  |-> group.execs[i].limits,
         outputs |-> [u \in group.execs[i].outputs |-> file_keys[u]]]]]

\* CacheEntry::same_limits
SameLimits(e1, e2) ==
    /\ Len(e1.items) = Len(e2.items)
    /\ \A i \in 1..Len(e1.items) : e1.items[i].limits = e2.items[i].limits

\* CacheEntry::outputs(file_store, group): the handles of the outputs, or
\* nothing when one of them is no longer in the file store.
EntryOutputs(entry, store, group) ==
    LET keys == UNION {{entry.items[i].outputs[u] : u \in DOMAIN entry.items[i].outputs} :
                        i \in 1..Len(entry.items)}
        uuids == UNION {DOMAIN entry.items[i].outputs : i \in 1..Len(entry.items)}
        owner(u) == CHOOSE i \in 1..Len(entry.items) : u \in DOMAIN entry.items[i].outputs
    IN IF keys \subseteq store
       THEN [ok |-> TRUE, map |-> [u \in uuids |-> entry.items[owner(u)].outputs[u]]]
       ELSE [ok |-> FALSE, map |-> <<>>]

\* A mutant of ItemCompatible: a result that is not a success is reused
\* under any limits.
ItemCompatibleFailures(item, exec) ==
    IF item.result.status.kind = "Success"
    THEN LessRestrictive(exec.limits, item.limits)
    ELSE TRUE

\* A mutant of ItemCompatible: the two directions swapped.
ItemCompatibleSwapped(item, exec) ==
    IF item.result.status.kind = "Success"
    THEN LessRestrictive(item.limits, exec.limits)
    ELSE LessRestrictive(exec.limits, item.limits)

\* The algorithm for extending a cache entry to other limits: E1 successful
\* with L1 and L2 less restrictive than L1: E2 will be successful; E1 not
\* successful with L1 and L1 less restrictive than L2: E2 won't be.
ItemCompatible(item, exec) ==
    IF item.result.status.kind = "Success"
    THEN LessRestrictive(exec.limits, item.limits)
    ELSE LessRestrictive(item.limits, exec.limits)

\* CacheEntry::is_compatible
IsCompatible(entry, group) ==
    /\ Len(entry.items) = Len(group.execs)
    /\ \A i \in 1..Len(entry.items) : ItemCompatible(entry.items[i], group.execs[i])

\* A mutant of FindPosition: no entry is ever found.
FindPositionNone(set, entry) == 0

\* find_position(|e| e.same_limits(&entry)): the first position, 0 for None.
FindPosition(set, entry) ==
    LET hits == {i \in 1..Len(set) : SameLimits(set[i], entry)}
    IN IF hits = {} THEN 0 ELSE CHOOSE i \in hits : \A j \in hits : i <= j

EntriesOf(entries, key) == IF key \in DOMAIN entries THEN entries[key] ELSE <<>>

\* A mutant of CacheInsert: always appends.
CacheInsertAppend(entries, group, file_keys, result) ==
    LET key == CacheKeyOf(group, file_keys)
        newset == Append(EntriesOf(entries, key), EntryFromGroup(group, file_keys, result))
    IN [k \in DOMAIN entries \cup {key} |-> IF k = key THEN newset ELSE entries[k]]

\* Cache::insert
CacheInsert(entries, group, file_keys, result) ==
    LET key == CacheKeyOf(group, file_keys)
        set == EntriesOf(entries, key)
        entry == EntryFromGroup(group, file_keys, result)
        pos == FindPosition(set, entry)
        newset == IF pos # 0 THEN [set EXCEPT ![pos] = entry] ELSE Append(set, entry)
    IN [k \in DOMAIN entries \cup {key} |-> IF k = key THEN newset ELSE entries[k]]

CacheMiss == [hit |-> FALSE, result |-> <<>>, outputs |-> <<>>]

\* A mutant of HitResults: the recorded status is copied.
HitResultsCopied(group, entry, cached) ==
    [i \in 1..Len(group.execs) |->
        MkResult(entry.items[i].result.status, entry.items[i].result.resources, cached)]

\* The results of a Hit: the status of each is computed again from the
\* recorded status and resources under the limits of the looked-up execution.
HitResults(group, entry, cached) ==
    [i \in 1..Len(group.execs) |->
        LET item == entry.items[i]
            exit_status == IF item.result.status.kind = "ReturnCode"
                           THEN item.result.status.arg ELSE 0
            signal == IF item.result.status.kind = "Signal"
                      THEN item.result.status.arg ELSE 0
        IN MkResult(ExecStatus(group.execs[i].limits, exit_status, signal,
                               item.result.resources),
                    item.result.resources, cached)]

\* The positions of the entries Cache::get may return.
Usable(set, group, store) ==
    {i \in 1..Len(set) : EntryOutputs(set[i], store, group).ok /\ IsCompatible(set[i], group)}

\* A mutant of CacheGet: the Hit's results are not marked as cached.
CacheGetNotMarked(entries, group, file_keys, store) ==
    LET set == EntriesOf(entries, CacheKeyOf(group, file_keys))
        usable == Usable(set, group, store)
        first == CHOOSE i \in usable : \A j \in usable : i <= j
    IN IF usable = {} THEN CacheMiss
       ELSE [hit |-> TRUE, result |-> HitResults(group, set[first], FALSE),
             outputs |-> EntryOutputs(set[first], store, group).map]

\* Cache::get: the first entry under the key whose outputs are in the file
\* store and which is compatible with the group.
CacheGet(entries, group, file_keys, store) ==
    LET set == EntriesOf(entries, CacheKeyOf(group, file_keys))
        usable == Usable(set, group, store)
        first == CHOOSE i \in usable : \A j \in usable : i <= j
    IN IF usable = {} THEN CacheMiss
       ELSE [hit |-> TRUE, result |-> HitResults(group, set[first], TRUE),
             outputs |-> EntryOutputs(set[first], store, group).map]

\* Cache::is_cacheable
IsCacheable(result) == result.status.kind # "InternalError"

\* A mutant of GroupCacheable: one cacheable result is enough.
GroupCacheableSome(results) == \E i \in 1..Len(results) : IsCacheable(results[i])

\* The executor's condition for caching a group: every result is cacheable.
GroupCacheable(results) == \A i \in 1..Len(results) : IsCacheable(results[i])

\* compute_execution_result: the ExecutionResult of a sandbox outcome. A
\* sandbox that Failed gives InternalError with no resource usage.
ComputeExecutionResult(limits, outcome) ==
    IF outcome.failed
    THEN MkResult(St("InternalError", 0), [cpu |-> 0, mem |-> 0], FALSE)
    ELSE MkResult(ExecStatus(limits, outcome.exit, outcome.sig,
                             [cpu |-> outcome.cpu, mem |-> outcome.mem]),
                  [cpu |-> outcome.cpu, mem |-> outcome.mem], FALSE)

\* ------------------------------------------------------------- CacheSpec
\* The cache driven through its interface: insert and get on two groups
\* under every limit of LimitSet, while output blobs leave and re-enter the
\* file store.

Outcome(failed, exit, sig, cpu, mem) ==
    [failed |-> failed, exit |-> exit, sig |-> sig, cpu |-> cpu, mem |-> mem]

\* What the sandbox runs of the model report: a cheap success, a success
\* that uses more cpu time and memory, a nonzero exit code after much cpu time,
\* a signal, and a sandbox failure.
RunCheap == Outcome(FALSE, 0, 0, 1, 1)
RunHeavy == Outcome(FALSE, 0, 0, 2, 2)
RunExit1 == Outcome(FALSE, 1, 0, 2, 1)
RunSignal == Outcome(FALSE, 0, 9, 1, 1)
RunFailed == Outcome(TRUE, 0, 0, 0, 0)

Unlimited == [cpu |-> NoLimit, mem |-> NoLimit]

\* A group of one execution and a group of two.
CacheGroup1(L) ==
    [cmd |-> "g1",
     execs |-> << [limits |-> L, inputs |-> {"in1"}, outputs |-> {"out1"}] >>]

CacheGroup2(L) ==
    [cmd |-> "g2",
     execs |-> << [limits |-> L, inputs |-> {"in1"}, outputs |-> {}],
                  [limits |-> Unlimited, inputs |-> {}, outputs |-> {"out2"}] >>]

CacheGroups ==
    {CacheGroup1(L) : L \in LimitSet}
        \cup {CacheGroup2(L) : L \in {Unlimited, [cpu |-> 1, mem |-> NoLimit]}}

InputKeys == {"ki"}
OutputKeys == {"ka", "kb"}

GroupInputs(group) == UNION {group.execs[i].inputs : i \in 1..Len(group.execs)}
GroupOutputs(group) == UNION {group.execs[i].outputs : i \in 1..Len(group.execs)}

\* The resolved inputs of a group.
InputMaps(group) == [GroupInputs(group) -> InputKeys]

\* The runs of a group: the resolved files (inputs and outputs) and the
\* results, one per execution. The output of a run is determined by what the
\* run did: the cheap success writes "ka", the others "kb".
GroupRuns(group) ==
    IF group.cmd = "g1"
    THEN {[fk |-> [u \in {"in1", "out1"} |->
                     IF u = "in1" THEN "ki" ELSE IF o = RunCheap THEN "ka" ELSE "kb"],
           results |-> << ComputeExecutionResult(group.execs[1].limits, o) >>] :
            o \in {RunCheap, RunHeavy, RunExit1}}
    ELSE {[fk |-> [u \in {"in1", "out2"} |-> IF u = "in1" THEN "ki" ELSE "ka"],
           results |-> << ComputeExecutionResult(group.execs[1].limits, o),
                          ComputeExecutionResult(group.execs[2].limits, RunCheap) >>] :
            o \in {RunSignal, RunFailed}}

Range(f) == {f[x] : x \in DOMAIN f}

Restrict(f, S) == [x \in S |-> f[x]]

NoCall == [op |-> "none", group |-> CacheGroup1(Unlimited),
           fk |-> <<>>, ins |-> <<>>, res |-> CacheMiss, after |-> FALSE]

CacheInit ==
    /\ cache_entries = <<>>
    /\ fs_keys = InputKeys \cup OutputKeys
    /\ cache_last = NoCall
    /\ cache_inserts = 0

\* cache.insert(group, file_keys, results); the caller holds a handle of
\* every file of file_keys, so their blobs are in the file store.
CacheDoInsert(group, fk, results) ==
    /\ cache_inserts < MaxInserts
    /\ Range(fk) \subseteq fs_keys
    /\ cache_entries' = CacheInsert(cache_entries, group, fk, results)
    /\ cache_inserts' = cache_inserts + 1
    /\ cache_last' = [op |-> "insert", group |-> group, fk |-> fk, ins |-> results,
                      res |-> CacheMiss, after |-> FALSE]
    /\ UNCHANGED fs_keys

\* cache.get(group, file_keys, file_store); "after" records that the call
\* follows an insert of the identical group and inputs.
CacheDoGet(group, fk) ==
    LET after == /\ cache_last.op = "insert"
                 /\ cache_last.group = group
                 /\ Restrict(cache_last.fk, GroupInputs(group)) = fk
    IN /\ Range(fk) \subseteq fs_keys
       /\ cache_last' = [op |-> "get", group |-> group,
                         fk |-> IF after THEN cache_last.fk ELSE fk,
                         ins |-> IF after THEN cache_last.ins ELSE <<>>,
                         res |-> CacheGet(cache_entries, group, fk, fs_keys),
                         after |-> after]
       /\ UNCHANGED <<cache_entries, fs_keys, cache_inserts>>

\* An output blob is evicted from the file store (nobody holds its handle).
FsEvict(k) ==
    /\ k \in fs_keys
    /\ fs_keys' = fs_keys \ {k}
    /\ cache_last' = [NoCall EXCEPT !.op = "evict"]
    /\ UNCHANGED <<cache_entries, cache_inserts>>

\* An output blob is stored again.
FsStore(k) ==
    /\ k \notin fs_keys
    /\ fs_keys' = fs_keys \cup {k}
    /\ cache_last' = [NoCall EXCEPT !.op = "store"]
    /\ UNCHANGED <<cache_entries, cache_inserts>>


\* ---------------------------------------------------- claims on the cache

AllCacheable(results) == \A i \in 1..Len(results) : IsCacheable(results[i])

AllSuccess(entry) ==
    \A i \in 1..Len(entry.items) : entry.items[i].result.status.kind = "Success"

\* The list the last call looked at, and the outputs and resources that the
\* insert before a get handed in.
LastSet == EntriesOf(cache_entries, CacheKeyOf(cache_last.group, cache_last.fk))
LastInsertedOutputs == Restrict(cache_last.fk, GroupOutputs(cache_last.group))
LastReturnsInserted ==
    /\ cache_last.res.outputs = LastInsertedOutputs
    /\ \A i \in 1..Len(cache_last.ins) :
          cache_last.res.result[i].resources = cache_last.ins[i].resources

\* A get that directly follows the insert of the identical group and inputs,
\* with cacheable results (the outputs are still in the file store: nothing
\* happened in between).
GetAfterInsert ==
    /\ cache_last.op = "get"
    /\ cache_last.after
    /\ AllCacheable(cache_last.ins)

\* The position of the inserted entry in its list.
LastInsertedPos ==
    FindPosition(LastSet, EntryFromGroup(cache_last.group, cache_last.fk, cache_last.ins))

Served ==
    LET usable == Usable(LastSet, cache_last.group, fs_keys)
    IN LastSet[CHOOSE i \in usable : \A j \in usable : i <= j]

IsHit == cache_last.op = "get" /\ cache_last.res.hit

\* What a result must be when it is categorized from the recorded run
\* (item) under the limits L2 of the looked-up execution.
Recategorized(res, item, L2) ==
    LET used == item.result.resources
        overCpu == L2.cpu # NoLimit /\ used.cpu > L2.cpu
        overMem == L2.mem # NoLimit /\ used.mem > L2.mem
    IN /\ res.was_cached
       /\ res.resources = used
       /\ overCpu => res.status.kind = "TimeLimitExceeded"
       /\ (~overCpu /\ overMem) => res.status.kind = "MemoryLimitExceeded"
       /\ (~overCpu /\ ~overMem /\ item.result.status.kind \in {"Success", "ReturnCode", "Signal"})
            => res.status = item.result.status

\* An entry of one execution that recorded the given status kind with cpu
\* time 2 under cpu limit lim, outputs in the file store, in the list that a
\* lookup with cpu limit 1 has just searched.
TightenedLookup(kind, lim) ==
    /\ cache_last.op = "get"
    /\ Len(cache_last.group.execs) = 1
    /\ cache_last.group.execs[1].limits = [cpu |-> 1, mem |-> NoLimit]
    /\ \E i \in 1..Len(LastSet) :
          /\ Len(LastSet[i].items) = 1
          /\ LastSet[i].items[1].result.status.kind = kind
          /\ LastSet[i].items[1].result.resources.cpu = 2
          /\ LastSet[i].items[1].limits = [cpu |-> lim, mem |-> NoLimit]
          /\ EntryOutputs(LastSet[i], fs_keys, cache_last.group).ok

LimitFailure(status) == status.kind \in {"TimeLimitExceeded", "MemoryLimitExceeded"}

\* The executions of the served entry that recorded a failure by limit.
ServedLimitFailures ==
    {x \in 1..Len(Served.items) : LimitFailure(Served.items[x].result.status)}

\* The looked-up list holds one entry, a TimeLimitExceeded recorded under
\* cpu limit 1, with its outputs in the file store, and the lookup has a
\* less restrictive cpu limit.
LoosenedLookup ==
    /\ cache_last.op = "get"
    /\ Len(cache_last.group.execs) = 1
    /\ cache_last.group.execs[1].limits \in {[cpu |-> 2, mem |-> NoLimit], Unlimited}
    /\ Len(LastSet) = 1
    /\ Len(LastSet[1].items) = 1
    /\ LastSet[1].items[1].result.status.kind = "TimeLimitExceeded"
    /\ LastSet[1].items[1].limits = [cpu |-> 1, mem |-> NoLimit]
    /\ EntryOutputs(LastSet[1], fs_keys, cache_last.group).ok

C12_MissWitness == LoosenedLookup /\ ~cache_last.res.hit

\* No limit of La is more restrictive than the corresponding one of Lb; a
\* limit that is not present is infinite.
NoTighter(La, Lb) ==
    \A d \in Dims : La[d] = NoLimit \/ (Lb[d] # NoLimit /\ La[d] >= Lb[d])

\* The entries of the looked-up list, with cacheable results and outputs in
\* the file store, whose every execution satisfies the condition of the
\* crate documentation: E1 successful with L1 and L2 less restrictive than
\* L1, or E1 not successful with L1 and L1 less restrictive than L2.
Extensible ==
    {i \in 1..Len(LastSet) :
        /\ Len(LastSet[i].items) = Len(cache_last.group.execs)
        /\ EntryOutputs(LastSet[i], fs_keys, cache_last.group).ok
        /\ \A x \in 1..Len(LastSet[i].items) :
              LET item == LastSet[i].items[x]
                  L2 == cache_last.group.execs[x].limits
              IN /\ IsCacheable(item.result)
                 /\ IF item.result.status.kind = "Success"
                    THEN NoTighter(L2, item.limits)
                    ELSE NoTighter(item.limits, L2)}

C13_SuccessWitness ==
    /\ IsHit
    /\ \E i \in Extensible :
          /\ LastSet[i] = Served
          /\ AllSuccess(Served)
          /\ \E x \in 1..Len(Served.items) :
                Served.items[x].limits # cache_last.group.execs[x].limits
          /\ \A x \in 1..Len(Served.items) : cache_last.res.result[x].status.kind = "Success"

\* The limits of an entry, one per execution.
LimitsOf(entry) == [i \in 1..Len(entry.items) |-> entry.items[i].limits]

\* No list of the cache holds two entries with the same limits.
NoTwoWithSameLimits ==
    \A k \in DOMAIN cache_entries :
        \A i, j \in 1..Len(cache_entries[k]) :
            LimitsOf(cache_entries[k][i]) = LimitsOf(cache_entries[k][j]) => i = j

\* What one Cache::insert does to the lists: the entry with the limits of
\* the inserted one is replaced where it stands, or else the inserted entry
\* is appended; the lists of the other keys stay as they are.
InsertStep ==
    (cache_inserts' = cache_inserts + 1) =>
        LET key == CacheKeyOf(cache_last'.group, cache_last'.fk)
            entry == EntryFromGroup(cache_last'.group, cache_last'.fk, cache_last'.ins)
            old == EntriesOf(cache_entries, key)
            new == cache_entries'[key]
            same == {j \in 1..Len(old) : LimitsOf(old[j]) = LimitsOf(entry)}
        IN /\ key \in DOMAIN cache_entries'
           /\ IF same # {}
              THEN /\ Len(new) = Len(old)
                   /\ \A j \in 1..Len(old) : new[j] = IF j \in same THEN entry ELSE old[j]
              ELSE new = Append(old, entry)
           /\ DOMAIN cache_entries' = DOMAIN cache_entries \cup {key}
           /\ \A k \in DOMAIN cache_entries : k # key => cache_entries'[k] = cache_entries[k]

\* C14: after any sequence of inserts no list holds two entries with the
\* same limits; an insert replaces the entry with identical limits in place
\* or appends exactly one entry, and leaves the other keys unchanged.
C14_UniqueLimits == []NoTwoWithSameLimits /\ [][InsertStep]_vars

\* C14's case: two inserts under one key with the same limits left one
\* entry, the second one.
C14_Witness ==
    /\ cache_inserts = 2
    /\ cache_last.op = "insert"
    /\ DOMAIN cache_entries = {CacheKeyOf(cache_last.group, cache_last.fk)}
    /\ Len(LastSet) = 1
    /\ LastSet[1] = EntryFromGroup(cache_last.group, cache_last.fk, cache_last.ins)

\* The entries of the looked-up list that recorded Success, have their
\* outputs in the file store, and whose limits L1 are related to the limits
\* L2 of the lookup by rel(L1, L2) in every execution.
SuccessEntries(rel(_, _)) ==
    {i \in 1..Len(LastSet) :
        /\ AllSuccess(LastSet[i])
        /\ Len(LastSet[i].items) = Len(cache_last.group.execs)
        /\ EntryOutputs(LastSet[i], fs_keys, cache_last.group).ok
        /\ \A x \in 1..Len(LastSet[i].items) :
              rel(LastSet[i].items[x].limits, cache_last.group.execs[x].limits)}

CachedLooser(L1, L2) == LessRestrictive(L1, L2)
CachedTighter(L1, L2) == LessRestrictive(L2, L1)

NoCount == -1

\* The files the client provides, with the number of chunks of each, and
\* the keys in the client's own file store.
ProvidedFiles == {"p1", "p2"}
ChunksOf(u) == IF u = "p1" THEN 1 ELSE 2
ProvidedKey(u) == IF u = "p1" THEN "kp1" ELSE "kp2"
ClientStore == {"kl"}

Msg(t, uuid) == [t |-> t, uuid |-> uuid]

DoneEntry(uuid, key, success) == [uuid |-> uuid, key |-> key, success |-> success]

\* The lists a Done message may carry: files whose key is ("kl") or is not
\* ("km") in the client's store.
DoneLists ==
    { <<>>,
      << DoneEntry("w1", "kl", TRUE) >>,
      << DoneEntry("w1", "km", TRUE), DoneEntry("w2", "kl", TRUE) >>,
      << DoneEntry("w1", "km", TRUE) >>,
      << DoneEntry("w1", "kl", TRUE), DoneEntry("w2", "km", FALSE) >>,
      << DoneEntry("w1", "km", TRUE), DoneEntry("w2", "km", TRUE) >> }

\* A mutant of MissingOf: every entry is asked for.
MissingOfAll(result, store) == result

\* The entries of a Done list that the client has to ask for: those whose
\* key its file store does not hold.
MissingOf(result, store) == SelectSeq(result, LAMBDA e : e.key \notin store)

\* The AskFile messages the Done handler sends, in the order of the list.
AskFilesOf(result, store) ==
    [i \in 1..Len(MissingOf(result, store)) |->
        [t |-> "AskFile", uuid |-> MissingOf(result, store)[i].uuid,
         key |-> MissingOf(result, store)[i].key,
         success |-> MissingOf(result, store)[i].success]]

NoFile == [uuid |-> "none", left |-> 0]

ClientInit ==
    /\ cl_pc = "start"
    /\ cl_ret = "none"
    /\ cl_missing = NoCount
    /\ cl_file = NoFile
    /\ po_pc = "unborn"
    /\ file_mode = "free"
    /\ done_flag = FALSE
    /\ c2s = <<>>
    /\ srv = [open |-> TRUE, asked |-> {}, done |-> FALSE, errored |-> FALSE,
              result |-> <<>>, got |-> 0, failed |-> FALSE]

\* A mutant of ClientFail: the file_mode guard outlives the deferred block.
ClientFailKeepsLock ==
    /\ cl_pc' = "defer"
    /\ cl_ret' = "err"
    /\ cl_file' = NoFile
    /\ file_mode' = file_mode

\* evaluate returns an error from inside the loop: the locals are dropped
\* (a held file_mode guard first), then the deferred block runs.
ClientFail ==
    /\ cl_pc' = "defer"
    /\ cl_ret' = "err"
    /\ cl_file' = NoFile
    /\ file_mode' = IF file_mode = "main" THEN "free" ELSE file_mode

\* A mutant of ClientStart: the poller is spawned first, and Evaluate is
\* sent in a later step.
ClientStartPollerFirst(fail) ==
    /\ cl_pc = "start"
    /\ IF po_pc = "unborn"
       THEN /\ po_pc' = "check"
            /\ UNCHANGED <<cl_pc, cl_ret, c2s>>
       ELSE /\ c2s' = Append(c2s, Msg("Evaluate", "none"))
            /\ cl_pc' = "recv"
            /\ UNCHANGED <<cl_ret, po_pc>>
    /\ UNCHANGED <<cl_missing, cl_file, file_mode, done_flag, srv>>

\* start_evaluation and the spawn of the poller: the callbacks of the
\* provided files run (and may fail), Evaluate is sent, the poller starts.
\* A failure here returns before the poller and the deferred block exist.
ClientStart(fail) ==
    /\ cl_pc = "start"
    /\ IF fail \/ ~srv.open
       THEN /\ cl_pc' = "returned"
            /\ cl_ret' = "err"
            /\ UNCHANGED <<c2s, po_pc>>
       ELSE /\ c2s' = Append(c2s, Msg("Evaluate", "none"))
            /\ cl_pc' = "recv"
            /\ po_pc' = "check"
            /\ UNCHANGED cl_ret
    /\ UNCHANGED <<cl_missing, cl_file, file_mode, done_flag, srv>>

\* while missing_files.unwrap_or(1) > 0
LoopGoesOn == (IF cl_missing = NoCount THEN 1 ELSE cl_missing) > 0

\* The loop condition fails: evaluate leaves the loop with Ok(()).
ClientLoopEnd ==
    /\ cl_pc = "recv"
    /\ ~LoopGoesOn
    /\ cl_pc' = "defer"
    /\ cl_ret' = "ok"
    /\ UNCHANGED <<cl_missing, cl_file, po_pc, file_mode, done_flag, c2s, srv>>

\* recv() gives AskFile(uuid): the main loop goes for the file_mode mutex.
ClientRecvAskFile(u) ==
    /\ cl_pc = "recv" /\ LoopGoesOn /\ srv.open
    /\ u \notin srv.asked
    /\ srv' = [srv EXCEPT !.asked = @ \cup {u}]
    /\ cl_pc' = "lock"
    /\ cl_file' = [uuid |-> u, left |-> ChunksOf(u)]
    /\ UNCHANGED <<cl_ret, cl_missing, po_pc, file_mode, done_flag, c2s>>

\* file_mode.lock() of the main loop succeeds when the mutex is free.
MainMayLock == file_mode = "free"

\* let _lock = file_mode.lock()
ClientLock ==
    /\ cl_pc = "lock"
    /\ MainMayLock
    /\ file_mode' = "main"
    /\ cl_pc' = "header"
    /\ UNCHANGED <<cl_ret, cl_missing, cl_file, po_pc, done_flag, c2s, srv>>

\* handle_server_ask_file: sender.send(ProvideFile(uuid, key))
ClientSendHeader ==
    /\ cl_pc = "header"
    /\ IF srv.open
       THEN /\ c2s' = Append(c2s, [t |-> "ProvideFile", uuid |-> cl_file.uuid,
                                   key |-> ProvidedKey(cl_file.uuid)])
            /\ cl_pc' = "chunks"
            /\ UNCHANGED <<cl_ret, cl_file, file_mode>>
       ELSE ClientFail /\ UNCHANGED c2s
    /\ UNCHANGED <<cl_missing, po_pc, done_flag, srv>>

\* ChannelFileSender::send: one chunk frame, or the end-of-file frame after
\* the last chunk; the guard _lock is dropped at the end of the match arm.
ClientSendFrame ==
    /\ cl_pc = "chunks"
    /\ IF ~srv.open
       THEN ClientFail /\ UNCHANGED c2s
       ELSE IF cl_file.left > 0
       THEN /\ c2s' = Append(c2s, Msg("Data", cl_file.uuid))
            /\ cl_file' = [cl_file EXCEPT !.left = @ - 1]
            /\ UNCHANGED <<cl_pc, cl_ret, file_mode>>
       ELSE /\ c2s' = Append(c2s, Msg("End", cl_file.uuid))
            /\ cl_file' = NoFile
            /\ file_mode' = "free"
            /\ cl_pc' = "recv"
            /\ UNCHANGED cl_ret
    /\ UNCHANGED <<cl_missing, po_pc, done_flag, srv>>

\* recv() gives ProvideFile(uuid, success): one missing file less (when
\* Done has been seen), then the chunks are read and the callbacks run.
ClientRecvProvideFile(fail) ==
    /\ cl_pc = "recv" /\ LoopGoesOn /\ srv.open
    /\ cl_missing' = IF cl_missing # NoCount THEN cl_missing - 1 ELSE cl_missing
    /\ srv' = [srv EXCEPT !.got = IF srv.done THEN @ + 1 ELSE @]
    /\ IF fail
       THEN ClientFail
       ELSE UNCHANGED <<cl_pc, cl_ret, cl_file, file_mode>>
    /\ UNCHANGED <<po_pc, done_flag, c2s>>

\* recv() gives NotifyStart, NotifyDone, NotifySkip or Status: the callbacks
\* run, and a failing one ends evaluate with its error.
ClientRecvNotify(fail) ==
    /\ cl_pc = "recv" /\ LoopGoesOn /\ srv.open /\ ~srv.done
    /\ IF fail
       THEN ClientFail
       ELSE UNCHANGED <<cl_pc, cl_ret, cl_file, file_mode>>
    /\ UNCHANGED <<cl_missing, po_pc, done_flag, c2s, srv>>

\* recv() gives Error(message): Stop is sent and the loop is left.
ClientRecvError ==
    /\ cl_pc = "recv" /\ LoopGoesOn /\ srv.open /\ ~srv.errored
    /\ srv' = [srv EXCEPT !.errored = TRUE]
    /\ c2s' = Append(c2s, Msg("Stop", "none"))
    /\ cl_pc' = "defer"
    /\ cl_ret' = "ok"
    /\ UNCHANGED <<cl_missing, cl_file, po_pc, file_mode, done_flag>>

\* recv() gives Done(result): the files in the client's store are processed
\* from there, the others are asked for with AskFile and counted. fail is
\* the entry whose process_provided_file fails, 0 for none: the entries
\* before it have been handled, and missing_files is not assigned.
ClientRecvDone(result, fail) ==
    /\ cl_pc = "recv" /\ LoopGoesOn /\ srv.open /\ ~srv.done
    /\ fail > 0 => result[fail].key \in ClientStore
    /\ srv' = [srv EXCEPT !.done = TRUE, !.result = result, !.failed = fail > 0]
    /\ IF fail > 0
       THEN /\ ClientFail
            /\ c2s' = c2s \o AskFilesOf(SubSeq(result, 1, fail - 1), ClientStore)
            /\ UNCHANGED cl_missing
       ELSE /\ c2s' = c2s \o AskFilesOf(result, ClientStore)
            /\ cl_missing' = Len(MissingOf(result, ClientStore))
            /\ UNCHANGED <<cl_pc, cl_ret, cl_file, file_mode>>
    /\ UNCHANGED <<po_pc, done_flag>>

\* recv() fails, the channel is closed: the loop is left.
ClientRecvClosed ==
    /\ cl_pc = "recv" /\ LoopGoesOn /\ ~srv.open
    /\ cl_pc' = "defer"
    /\ cl_ret' = "ok"
    /\ UNCHANGED <<cl_missing, cl_file, po_pc, file_mode, done_flag, c2s, srv>>

\* The deferred block: done.store(true), then status_poller.join().
ClientDefer ==
    /\ cl_pc = "defer"
    /\ done_flag' = TRUE
    /\ cl_pc' = "join"
    /\ UNCHANGED <<cl_ret, cl_missing, cl_file, po_pc, file_mode, c2s, srv>>

ClientJoin ==
    /\ cl_pc = "join"
    /\ po_pc = "dead"
    /\ cl_pc' = "returned"
    /\ UNCHANGED <<cl_ret, cl_missing, cl_file, po_pc, file_mode, done_flag, c2s, srv>>

StatusSent == Len(SelectSeq(c2s, LAMBDA m : m.t = "Status"))

\* The poller's loop test, while !done.load(): on to the lock, or out. The
\* session of the model is over after MaxStatus polls.
PollerCheck ==
    /\ po_pc = "check"
    /\ IF done_flag
       THEN po_pc' = "dead"
       ELSE StatusSent < MaxStatus /\ po_pc' = "lock"
    /\ UNCHANGED <<cl_pc, cl_ret, cl_missing, cl_file, file_mode, done_flag, c2s, srv>>

\* A mutant of PollerMayLock: the poller sends without the mutex.
PollerMayLockAlways == TRUE

\* file_mode.lock() of the poller succeeds when the mutex is free.
PollerMayLock == file_mode = "free"

\* let _lock = file_mode.lock().unwrap()
PollerLock ==
    /\ po_pc = "lock"
    /\ PollerMayLock
    /\ file_mode' = "poller"
    /\ po_pc' = "send"
    /\ UNCHANGED <<cl_pc, cl_ret, cl_missing, cl_file, done_flag, c2s, srv>>

\* sender.send(Status): a failed send ends the thread; the guard is dropped
\* either way, then the thread sleeps STATUS_POLL_INTERVAL_MS.
PollerSend ==
    /\ po_pc = "send"
    /\ IF srv.open
       THEN c2s' = Append(c2s, Msg("Status", "none")) /\ po_pc' = "sleep"
       ELSE c2s' = c2s /\ po_pc' = "dead"
    /\ file_mode' = IF file_mode = "poller" THEN "free" ELSE file_mode
    /\ UNCHANGED <<cl_pc, cl_ret, cl_missing, cl_file, done_flag, srv>>

PollerWake ==
    /\ po_pc = "sleep"
    /\ po_pc' = "check"
    /\ UNCHANGED <<cl_pc, cl_ret, cl_missing, cl_file, file_mode, done_flag, c2s, srv>>

\* The server goes away: sends fail and recv reports a closed channel.
ServerGone ==
    /\ srv.open
    /\ cl_pc \notin {"start", "returned"}
    /\ srv' = [srv EXCEPT !.open = FALSE]
    /\ UNCHANGED <<cl_pc, cl_ret, cl_missing, cl_file, po_pc, file_mode, done_flag, c2s>>

\* The session leaves the cache alone.
ClientFrame == UNCHANGED <<cacheVars, workerVars, schedVars, diskVars, storeVars, evictVars, writeVars, funVars>>

ClientNext ==
    \/ \E fail \in BOOLEAN : ClientStart(fail) /\ ClientFrame
    \/ ClientLoopEnd /\ ClientFrame
    \/ \E u \in ProvidedFiles : ClientRecvAskFile(u) /\ ClientFrame
    \/ ClientLock /\ ClientFrame
    \/ ClientSendHeader /\ ClientFrame
    \/ ClientSendFrame /\ ClientFrame
    \/ \E fail \in BOOLEAN : ClientRecvProvideFile(fail) /\ ClientFrame
    \/ \E fail \in BOOLEAN : ClientRecvNotify(fail) /\ ClientFrame
    \/ ClientRecvError /\ ClientFrame
    \/ \E r \in DoneLists : \E fail \in 0..Len(r) : ClientRecvDone(r, fail) /\ ClientFrame
    \/ ClientRecvClosed /\ ClientFrame
    \/ ClientDefer /\ ClientFrame
    \/ ClientJoin /\ ClientFrame
    \/ PollerCheck /\ ClientFrame
    \/ PollerLock /\ ClientFrame
    \/ PollerSend /\ ClientFrame
    \/ PollerWake /\ ClientFrame
    \/ ServerGone /\ ClientFrame

\* =========================================================================
\* The worker: Worker::work and the sandbox group manager
\* =========================================================================

NoJob == [uuid |-> "none", execs |-> <<>>, dep_keys |-> <<>>]

WExec(deps, outputs) ==
    [limits |-> Unlimited, deps |-> deps, outputs |-> outputs]

\* The jobs the server hands out. In "j1" two executions share the input "b"
\* and the inputs "a" and "c" have the same content, hence the same key; "j2"
\* has no input; the dep_keys of "j3" lack the key of its input.
WorkerJobs ==
    { [uuid |-> "j1",
       execs |-> << WExec(<<"a", "b">>, {"o1"}), WExec(<<"b", "c">>, {"o2"}) >>,
       dep_keys |-> [u \in {"a", "b", "c"} |-> IF u = "b" THEN "k2" ELSE "k1"]],
      [uuid |-> "j2",
       execs |-> << WExec(<<>>, {"o3"}) >>,
       dep_keys |-> <<>>],
      [uuid |-> "j3",
       execs |-> << WExec(<<"a", "d">>, {}) >>,
       dep_keys |-> [u \in {"a"} |-> "k1"]] }

WorkerKeys == {"k1", "k2"}

\* Every input of every execution of the job, in the order the Work handler
\* walks them.
RECURSIVE JobDeps(_)
JobDeps(execs) ==
    IF execs = <<>> THEN <<>> ELSE Head(execs).deps \o JobDeps(Tail(execs))

SeqRange(q) == {q[i] : i \in 1..Len(q)}

\* A mutant of ScanDeps: AskFile is sent for every input whose key the store
\* lacks.
RECURSIVE ScanDepsAskEach(_, _, _, _, _)
ScanDepsAskEach(deps, dep_keys, store, i, acc) ==
    IF i > Len(deps) THEN acc
    ELSE IF deps[i] \notin DOMAIN dep_keys THEN [acc EXCEPT !.err = TRUE]
    ELSE LET key == dep_keys[deps[i]]
         IN IF key \in store
            THEN ScanDepsAskEach(deps, dep_keys, store, i + 1,
                    [acc EXCEPT !.handles =
                        [u \in DOMAIN acc.handles \cup {deps[i]} |->
                            IF u = deps[i] THEN key ELSE acc.handles[u]]])
            ELSE ScanDepsAskEach(deps, dep_keys, store, i + 1,
                    [acc EXCEPT
                        !.asks = Append(@, [t |-> "AskFile", key |-> key]),
                        !.missing =
                            [k \in DOMAIN acc.missing \cup {key} |->
                                IF k = key
                                THEN Append(IF key \in DOMAIN acc.missing
                                            THEN acc.missing[key] ELSE <<>>, deps[i])
                                ELSE acc.missing[k]]])

\* The Work handler's walk over the inputs, from input i on: each input needs
\* its key in dep_keys (else the walk stops with an error); a key the file
\* store has gives a handle, a key it lacks is asked for once and the input is
\* queued under it in missing_deps.
RECURSIVE ScanDeps(_, _, _, _, _)
ScanDeps(deps, dep_keys, store, i, acc) ==
    IF i > Len(deps) THEN acc
    ELSE IF deps[i] \notin DOMAIN dep_keys THEN [acc EXCEPT !.err = TRUE]
    ELSE LET key == dep_keys[deps[i]]
         IN IF key \in store
            THEN ScanDeps(deps, dep_keys, store, i + 1,
                    [acc EXCEPT !.handles =
                        [u \in DOMAIN acc.handles \cup {deps[i]} |->
                            IF u = deps[i] THEN key ELSE acc.handles[u]]])
            ELSE ScanDeps(deps, dep_keys, store, i + 1,
                    [acc EXCEPT
                        !.asks = IF key \in DOMAIN acc.missing THEN @
                                 ELSE Append(@, [t |-> "AskFile", key |-> key]),
                        !.missing =
                            [k \in DOMAIN acc.missing \cup {key} |->
                                IF k = key
                                THEN Append(IF key \in DOMAIN acc.missing
                                            THEN acc.missing[key] ELSE <<>>, deps[i])
                                ELSE acc.missing[k]]])

ScanStart == [err |-> FALSE, handles |-> <<>>, missing |-> <<>>, asks |-> <<>>]

\* The None of the manager's vector of results.
NoResult == MkResult(St("None", 0), [cpu |-> 0, mem |-> 0], FALSE)

NoMgr == [results |-> <<>>, sent |-> FALSE, uploaded |-> {}]

WorkerInit ==
    /\ wk_pc = "start"
    /\ wk_job = NoJob
    /\ wk_handles = <<>>
    /\ wk_missing = <<>>
    /\ wk_sandboxes = <<>>
    /\ wk_thread = "none"
    /\ wk_mgr = NoMgr
    /\ wk_store \in SUBSET WorkerKeys
    /\ w2s = <<>>
    /\ s2w = <<>>
    /\ wsrv = [open |-> TRUE, works |-> 0, sent |-> {}, provided |-> 0, killed |-> {},
               exit |-> FALSE, kill_seen |-> {}]

\* The worker of the specifications that are about another component: it has
\* an empty store.
WorkerRest == WorkerInit /\ wk_store = {}

\* work() begins: GetWork is sent.
WorkerStart ==
    /\ wk_pc = "start"
    /\ IF wsrv.open
       THEN w2s' = Append(w2s, [t |-> "GetWork"]) /\ wk_pc' = "recv"
       ELSE w2s' = w2s /\ wk_pc' = "failed"
    /\ UNCHANGED <<wk_job, wk_handles, wk_missing, wk_sandboxes, wk_thread, wk_mgr,
                   wk_store, s2w, wsrv>>

\* A mutant of JobReady: the job starts as soon as one key has arrived.
JobReadyEarly(missing) == TRUE

\* let job_ready = missing_deps.is_empty() / should_start
JobReady(missing) == DOMAIN missing = {}

\* start_job!: execute_job makes one sandbox per execution and spawns the
\* group manager, which spawns the sandbox threads.
StartJob(job) ==
    /\ wk_sandboxes' = [i \in 1..Len(job.execs) |-> [state |-> "running", killed |-> FALSE]]
    /\ wk_thread' = "running"
    /\ wk_mgr' = [results |-> [i \in 1..Len(job.execs) |-> NoResult],
                  sent |-> FALSE, uploaded |-> {}]

\* recv() gives Work(job). The assertion on an empty job slot, the join of
\* the previous sandbox thread, the walk over the inputs, and the start of
\* the job when nothing is missing.
WorkerRecvWork ==
    /\ wk_pc = "recv"
    /\ s2w # <<>> /\ Head(s2w).t = "Work"
    /\ s2w' = Tail(s2w)
    /\ LET job == Head(s2w).job
           scan == ScanDeps(JobDeps(job.execs), job.dep_keys, wk_store, 1, ScanStart)
       IN IF wk_job # NoJob
          THEN /\ wk_pc' = "panicked"
               /\ UNCHANGED <<wk_job, wk_handles, wk_missing, wk_sandboxes, wk_thread,
                              wk_mgr, w2s>>
          ELSE /\ wk_thread \in {"none", "finished"}
               /\ IF ~wsrv.open /\ scan.asks # <<>>
                  THEN /\ wk_pc' = "failed"
                       /\ wk_thread' = "none"
                       /\ UNCHANGED <<wk_job, wk_handles, wk_missing, wk_sandboxes, wk_mgr, w2s>>
                  ELSE /\ w2s' = w2s \o scan.asks
                       /\ IF scan.err
                          THEN /\ wk_pc' = "failed"
                               /\ wk_thread' = "none"
                               /\ UNCHANGED <<wk_job, wk_handles, wk_missing,
                                              wk_sandboxes, wk_mgr>>
                          ELSE /\ wk_job' = job
                               /\ wk_handles' = scan.handles
                               /\ wk_missing' = scan.missing
                               /\ wk_pc' = "recv"
                               /\ IF JobReady(scan.missing)
                                  THEN StartJob(job)
                                  ELSE /\ wk_thread' = "none"
                                       /\ UNCHANGED <<wk_sandboxes, wk_mgr>>
    /\ UNCHANGED <<wk_store, wsrv>>

\* recv() gives ProvideFile(key): the file is read from the channel into the
\* file store, every input waiting for the key gets the handle, and the job
\* starts when nothing is missing any more. A key nobody waits for, or no
\* job at all, is a panic.
WorkerRecvProvideFile ==
    /\ wk_pc = "recv"
    /\ s2w # <<>> /\ Head(s2w).t = "ProvideFile"
    /\ s2w' = Tail(s2w)
    /\ LET key == Head(s2w).key
           left == [k \in DOMAIN wk_missing \ {key} |-> wk_missing[k]]
       IN /\ wk_store' = wk_store \cup {key}
          /\ IF key \notin DOMAIN wk_missing \/ wk_job = NoJob
             THEN /\ wk_pc' = "panicked"
                  /\ UNCHANGED <<wk_handles, wk_missing, wk_sandboxes, wk_thread, wk_mgr>>
             ELSE /\ wk_missing' = left
                  /\ wk_handles' =
                        [u \in DOMAIN wk_handles \cup SeqRange(wk_missing[key]) |->
                            IF u \in SeqRange(wk_missing[key]) THEN key ELSE wk_handles[u]]
                  /\ wk_pc' = "recv"
                  /\ IF JobReady(left)
                     THEN StartJob(wk_job)
                     ELSE UNCHANGED <<wk_sandboxes, wk_thread, wk_mgr>>
    /\ UNCHANGED <<wk_job, w2s, wsrv>>

\* The key of the file an execution wrote as output u.
OutputKeyOf(u) == "key_" \o u

\* What a sandbox thread of the job sends to the group manager: the sandboxes
\* of the job of two executions succeed or exit with a nonzero code, the
\* sandbox of a job of one execution succeeds or fails to run.
SandboxRuns(job) ==
    IF Len(job.execs) > 1 THEN {RunCheap, RunExit1} ELSE {RunCheap, RunFailed}

JobOutputs(job, results) ==
    UNION {job.execs[i].outputs : i \in {j \in 1..Len(job.execs) : results[j] # NoResult}}

\* A mutant of SandboxReport: a result that is not a success kills nothing.
SandboxReportNoKill(i, outcome) ==
    /\ wk_thread = "running"
    /\ i \in 1..Len(wk_sandboxes)
    /\ wk_mgr.results[i] = NoResult
    /\ outcome \in SandboxRuns(wk_job) \cup (IF wk_sandboxes[i].killed THEN {RunSignal} ELSE {})
    /\ wk_mgr' = [wk_mgr EXCEPT
                    !.results[i] = ComputeExecutionResult(wk_job.execs[i].limits, outcome)]
    /\ wk_sandboxes' = [wk_sandboxes EXCEPT ![i].state = "exited"]
    /\ UNCHANGED <<wk_pc, wk_job, wk_handles, wk_missing, wk_thread, wk_store, w2s, s2w, wsrv>>

\* A sandbox thread reports and the group manager receives the report: the
\* result is computed, a result that is not a success kills the sandboxes
\* that have not reported yet, and the result is recorded. A killed sandbox
\* may also report the signal that killed it.
SandboxReport(i, outcome) ==
    /\ wk_thread = "running"
    /\ i \in 1..Len(wk_sandboxes)
    /\ wk_mgr.results[i] = NoResult
    /\ outcome \in SandboxRuns(wk_job) \cup (IF wk_sandboxes[i].killed THEN {RunSignal} ELSE {})
    /\ LET result == ComputeExecutionResult(wk_job.execs[i].limits, outcome)
       IN /\ wk_mgr' = [wk_mgr EXCEPT !.results[i] = result]
          /\ wk_sandboxes' =
                [j \in 1..Len(wk_sandboxes) |->
                    IF j = i THEN [wk_sandboxes[j] EXCEPT !.state = "exited"]
                    ELSE IF result.status.kind # "Success" /\ wk_mgr.results[j] = NoResult
                         THEN [wk_sandboxes[j] EXCEPT !.killed = TRUE]
                         ELSE wk_sandboxes[j]]
    /\ UNCHANGED <<wk_pc, wk_job, wk_handles, wk_missing, wk_thread, wk_store, w2s, s2w, wsrv>>

AllReported == \A i \in 1..Len(wk_mgr.results) : wk_mgr.results[i] # NoResult

\* The manager has every result: it sends WorkerDone with the results and
\* the keys of the outputs. A send on a closed channel is a panic of the
\* manager's thread.
ManagerSendDone ==
    /\ wk_thread = "running"
    /\ AllReported /\ ~wk_mgr.sent
    /\ IF wsrv.open
       THEN /\ w2s' = Append(w2s, [t |-> "WorkerDone", job |-> wk_job.uuid,
                                   results |-> wk_mgr.results,
                                   outputs |-> JobOutputs(wk_job, wk_mgr.results)])
            /\ wk_mgr' = [wk_mgr EXCEPT !.sent = TRUE]
            /\ wk_thread' = wk_thread
       ELSE /\ wk_thread' = "panicked"
            /\ UNCHANGED <<w2s, wk_mgr>>
    /\ UNCHANGED <<wk_pc, wk_job, wk_handles, wk_missing, wk_sandboxes, wk_store, s2w, wsrv>>

\* After WorkerDone the manager sends each output: the ProvideFile header and
\* the content of the file.
ManagerUpload(u) ==
    /\ wk_thread = "running"
    /\ wk_mgr.sent
    /\ u \in JobOutputs(wk_job, wk_mgr.results) \ wk_mgr.uploaded
    /\ IF wsrv.open
       THEN /\ w2s' = Append(w2s, [t |-> "ProvideFile", job |-> wk_job.uuid, uuid |-> u,
                                   key |-> OutputKeyOf(u)])
            /\ wk_mgr' = [wk_mgr EXCEPT !.uploaded = @ \cup {u}]
            /\ wk_thread' = wk_thread
       ELSE /\ wk_thread' = "panicked"
            /\ UNCHANGED <<w2s, wk_mgr>>
    /\ UNCHANGED <<wk_pc, wk_job, wk_handles, wk_missing, wk_sandboxes, wk_store, s2w, wsrv>>

\* A mutant of ManagerReset: GetWork is sent with the job still in its slot.
ManagerResetLate ==
    /\ wk_thread = "running"
    /\ wk_mgr.sent
    /\ wk_mgr.uploaded = JobOutputs(wk_job, wk_mgr.results)
    /\ w2s' = IF wsrv.open THEN Append(w2s, [t |-> "GetWork"]) ELSE w2s
    /\ wk_mgr' = NoMgr
    /\ wk_thread' = "finished"
    /\ UNCHANGED <<wk_pc, wk_job, wk_sandboxes, wk_handles, wk_missing, wk_store, s2w, wsrv>>

\* The job is completed: under the lock the manager empties the job slot and
\* the sandboxes, asks for more work (a failure to send is ignored) and ends.
ManagerReset ==
    /\ wk_thread = "running"
    /\ wk_mgr.sent
    /\ wk_mgr.uploaded = JobOutputs(wk_job, wk_mgr.results)
    /\ wk_job' = NoJob
    /\ wk_sandboxes' = <<>>
    /\ wk_handles' = <<>>
    /\ w2s' = IF wsrv.open THEN Append(w2s, [t |-> "GetWork"]) ELSE w2s
    /\ wk_mgr' = NoMgr
    /\ wk_thread' = "finished"
    /\ UNCHANGED <<wk_pc, wk_missing, wk_store, s2w, wsrv>>

\* recv() gives Exit: the sandbox thread is joined and the loop ends.
WorkerRecvExit ==
    /\ wk_pc = "recv"
    /\ s2w # <<>> /\ Head(s2w).t = "Exit"
    /\ s2w' = Tail(s2w)
    /\ wk_pc' = "join_exit"
    /\ UNCHANGED <<wk_job, wk_handles, wk_missing, wk_sandboxes, wk_thread, wk_mgr,
                   wk_store, w2s, wsrv>>

\* recv() gives KillJob(job): when the job is the current one and its
\* sandboxes exist they are killed and the sandbox thread is joined; in every
\* other case nothing happens. kill_seen records the jobs whose KillJob was
\* handled while they were the current job.
WorkerRecvKillJob ==
    /\ wk_pc = "recv"
    /\ s2w # <<>> /\ Head(s2w).t = "KillJob"
    /\ s2w' = Tail(s2w)
    /\ IF wk_job # NoJob /\ wk_job.uuid = Head(s2w).job /\ wk_sandboxes # <<>>
       THEN /\ wk_sandboxes' = [i \in 1..Len(wk_sandboxes) |->
                                    [wk_sandboxes[i] EXCEPT !.killed = TRUE]]
            /\ wk_pc' = "join_recv"
       ELSE UNCHANGED <<wk_sandboxes, wk_pc>>
    /\ wsrv' = IF wk_job # NoJob /\ wk_job.uuid = Head(s2w).job
               THEN [wsrv EXCEPT !.kill_seen = @ \cup {Head(s2w).job}]
               ELSE wsrv
    /\ UNCHANGED <<wk_job, wk_handles, wk_missing, wk_thread, wk_mgr, wk_store, w2s>>

\* A mutant of WorkerRecvClosed: the loop ends and nothing is killed.
WorkerRecvClosedNoKill ==
    /\ wk_pc = "recv"
    /\ s2w = <<>> /\ ~wsrv.open
    /\ wk_pc' = "join_exit"
    /\ UNCHANGED <<wk_job, wk_handles, wk_missing, wk_sandboxes, wk_thread, wk_mgr, wk_store,
                   w2s, s2w, wsrv>>

\* recv() fails, the channel is closed and empty: the sandboxes, if any, are
\* killed and the loop ends.
WorkerRecvClosed ==
    /\ wk_pc = "recv"
    /\ s2w = <<>> /\ ~wsrv.open
    /\ wk_sandboxes' = [i \in 1..Len(wk_sandboxes) |->
                            [wk_sandboxes[i] EXCEPT !.killed = TRUE]]
    /\ wk_pc' = "join_exit"
    /\ UNCHANGED <<wk_job, wk_handles, wk_missing, wk_thread, wk_mgr, wk_store, w2s, s2w, wsrv>>

\* wait_sandbox!: the join returns once the sandbox thread has ended; the
\* panic of that thread makes work() return the error.
WorkerJoin ==
    /\ wk_pc \in {"join_recv", "join_exit"}
    /\ wk_thread # "running"
    /\ wk_pc' = IF wk_thread = "panicked" THEN "failed"
                ELSE IF wk_pc = "join_recv" THEN "recv" ELSE "returned"
    /\ wk_thread' = "none"
    /\ UNCHANGED <<wk_job, wk_handles, wk_missing, wk_sandboxes, wk_mgr, wk_store, w2s, s2w, wsrv>>

\* ---- the server's end of the worker's connection

CountOf(q, t) == Cardinality({i \in 1..Len(q) : q[i].t = t})

\* The server answers a GetWork with a job it has not handed out yet.
WServerSendWork(job) ==
    /\ wsrv.open /\ ~wsrv.exit
    /\ job.uuid \notin wsrv.sent
    /\ wsrv.works < MaxJobs
    /\ wsrv.works < CountOf(w2s, "GetWork")
    /\ s2w' = Append(s2w, [t |-> "Work", job |-> job])
    /\ wsrv' = [wsrv EXCEPT !.works = @ + 1, !.sent = @ \cup {job.uuid}]
    /\ UNCHANGED <<wk_pc, wk_job, wk_handles, wk_missing, wk_sandboxes, wk_thread, wk_mgr,
                   wk_store, w2s>>

\* The server answers the next AskFile with the file.
WServerProvideFile ==
    /\ wsrv.open
    /\ wsrv.provided < CountOf(w2s, "AskFile")
    /\ LET asks == SelectSeq(w2s, LAMBDA m : m.t = "AskFile")
       IN s2w' = Append(s2w, [t |-> "ProvideFile", key |-> asks[wsrv.provided + 1].key])
    /\ wsrv' = [wsrv EXCEPT !.provided = @ + 1]
    /\ UNCHANGED <<wk_pc, wk_job, wk_handles, wk_missing, wk_sandboxes, wk_thread, wk_mgr,
                   wk_store, w2s>>

\* The server asks the worker to kill a job it has handed out.
WServerKillJob(u) ==
    /\ wsrv.open /\ ~wsrv.exit
    /\ u \in wsrv.sent
    /\ u \notin wsrv.killed
    /\ s2w' = Append(s2w, [t |-> "KillJob", job |-> u])
    /\ wsrv' = [wsrv EXCEPT !.killed = @ \cup {u}]
    /\ UNCHANGED <<wk_pc, wk_job, wk_handles, wk_missing, wk_sandboxes, wk_thread, wk_mgr,
                   wk_store, w2s>>

WServerExit ==
    /\ wsrv.open /\ ~wsrv.exit
    /\ s2w' = Append(s2w, [t |-> "Exit"])
    /\ wsrv' = [wsrv EXCEPT !.exit = TRUE]
    /\ UNCHANGED <<wk_pc, wk_job, wk_handles, wk_missing, wk_sandboxes, wk_thread, wk_mgr,
                   wk_store, w2s>>

WServerGone ==
    /\ wsrv.open
    /\ wsrv' = [wsrv EXCEPT !.open = FALSE]
    /\ UNCHANGED <<wk_pc, wk_job, wk_handles, wk_missing, wk_sandboxes, wk_thread, wk_mgr,
                   wk_store, w2s, s2w>>

WorkerFrame == UNCHANGED <<cacheVars, clientVars, schedVars, diskVars, storeVars, evictVars, writeVars, funVars>>

WorkerNext ==
    \/ WorkerStart /\ WorkerFrame
    \/ WorkerRecvWork /\ WorkerFrame
    \/ WorkerRecvProvideFile /\ WorkerFrame
    \/ WorkerRecvExit /\ WorkerFrame
    \/ WorkerRecvKillJob /\ WorkerFrame
    \/ WorkerRecvClosed /\ WorkerFrame
    \/ WorkerJoin /\ WorkerFrame
    \/ \E i \in 1..2 : \E o \in {RunCheap, RunExit1, RunFailed, RunSignal} : SandboxReport(i, o) /\ WorkerFrame
    \/ ManagerSendDone /\ WorkerFrame
    \/ \E u \in {"o1", "o2", "o3"} : ManagerUpload(u) /\ WorkerFrame
    \/ ManagerReset /\ WorkerFrame
    \/ \E job \in WorkerJobs : WServerSendWork(job) /\ WorkerFrame
    \/ WServerProvideFile /\ WorkerFrame
    \/ \E job \in WorkerJobs : WServerKillJob(job.uuid) /\ WorkerFrame
    \/ WServerExit /\ WorkerFrame
    \/ WServerGone /\ WorkerFrame

\* =========================================================================
\* The scheduler (spec section 4.4) with one client session and its workers
\* =========================================================================

\* The DAG of the session: A reads the provided file and writes fa; B reads
\* fa and writes fb; C reads fb and writes fc; D reads fa as a side input and
\* writes fd.
Execs == {"A", "B", "C", "D"}
ExecOrder == <<"A", "B", "C", "D">>
Workers == {"w1", "w2"}

Inputs(e) ==
    IF e = "A" THEN {"p"} ELSE IF e = "C" THEN {"fb"} ELSE {"fa"}

SideInputs(e) == IF e = "D" THEN {"fa"} ELSE {}

Outputs(e) ==
    IF e = "A" THEN {"fa"} ELSE IF e = "B" THEN {"fb"} ELSE IF e = "C" THEN {"fc"} ELSE {"fd"}

Priority(e) == IF e = "D" THEN 1 ELSE 0

\* What the client watches: the executions with callbacks, the files it asked
\* to write, and those of them that are urgent.
WatchedExecs == {"A", "B", "C"}
WriteFiles == {"fa", "fc", "fd"}
UrgentFiles == {"fa"}

\* The key of the content of a file; the client's store holds that of fd.
KeyOfFile(f) == IF f = "fd" THEN "kl" ELSE "key_" \o f

Producers(f) == {e \in Execs : f \in Outputs(e)}

\* The ExecutionGroup of an execution, as the cache sees it.
GroupOf(e) ==
    [cmd |-> e,
     execs |-> << [limits |-> Unlimited, inputs |-> Inputs(e), outputs |-> Outputs(e)] >>]

SeqOf(S) == SelectSeq(ExecOrder, LAMBDA e : e \in S)

\* The executions that consume an output of e through an input that is not
\* a side input.
Poisoned(e) ==
    {c \in Execs : \E f \in Outputs(e) : f \in Inputs(c) \ SideInputs(c)}

RECURSIVE Closure(_)
Closure(S) ==
    LET more == S \cup UNION {Poisoned(e) : e \in S}
    IN IF more = S THEN S ELSE Closure(more)

\* A mutant of Downstream: only the direct consumers.
DownstreamDirect(e) == Poisoned(e)

\* Every transitive consumer of e through inputs that are not side inputs.
Downstream(e) == Closure(Poisoned(e))

\* A mutant of ReadyInsert: a group goes ahead of those of its priority.
ReadyInsertFront(q, e) ==
    LET before == {i \in 1..Len(q) : Priority(q[i]) > Priority(e)}
        n == Cardinality(before)
    IN SubSeq(q, 1, n) \o <<e>> \o SubSeq(q, n + 1, Len(q))

\* The ready queue is ordered by priority descending, then by arrival.
ReadyInsert(q, e) ==
    LET before == {i \in 1..Len(q) : Priority(q[i]) >= Priority(e)}
        n == Cardinality(before)
    IN SubSeq(q, 1, n) \o <<e>> \o SubSeq(q, n + 1, Len(q))

RECURSIVE PushAll(_, _)
PushAll(q, es) == IF es = <<>> THEN q ELSE PushAll(ReadyInsert(q, Head(es)), Tail(es))

\* A mutant of PopReady: the group stays in the queue.
PopReadyKept(q) == q

\* The highest-priority ready group is popped.
PopReady(q) == Tail(q)

\* A mutant of Requeue: the job of the lost worker is dropped.
RequeueDropped(q, e) == q

\* The job of a disconnected worker goes back to the ready queue.
Requeue(q, e) == ReadyInsert(q, e)

NotifyStart(e, w) == [t |-> "NotifyStart", uuid |-> e, worker |-> w]
NotifyDone(e, result) == [t |-> "NotifyDone", uuid |-> e, result |-> result]
NotifySkip(e) == [t |-> "NotifySkip", uuid |-> e]
ServerProvideFile(f, success) == [t |-> "ProvideFile", uuid |-> f, success |-> success]

Settled(state) == \A e \in Execs : state[e] \in {"done", "skipped"}

FileSuccess(results, f) ==
    \A e \in Producers(f) : results[e].status.kind = "Success"

\* A mutant of DoneList: the urgent files, already sent, are left out.
DoneListDeferred(keys, results) ==
    LET files == SelectSeq(<<"fa", "fb", "fc", "fd">>,
                           LAMBDA f : f \in WriteFiles \ UrgentFiles)
    IN [i \in 1..Len(files) |->
            DoneEntry(files[i],
                      IF files[i] \in DOMAIN keys THEN keys[files[i]] ELSE "nokey",
                      files[i] \in DOMAIN keys /\ FileSuccess(results, files[i]))]

\* Done(list of (FileUuid, FileStoreKey, success)) for every file the client
\* asked to write; the file of a skipped execution has no key and no success.
DoneList(keys, results) ==
    LET files == SelectSeq(<<"fa", "fb", "fc", "fd">>, LAMBDA f : f \in WriteFiles)
    IN [i \in 1..Len(files) |->
            DoneEntry(files[i],
                      IF files[i] \in DOMAIN keys THEN keys[files[i]] ELSE "nokey",
                      files[i] \in DOMAIN keys /\ FileSuccess(results, files[i]))]

\* A mutant of CompletionMsgs: the urgent files go out before NotifyDone.
CompletionMsgsFilesFirst(e, result) ==
    [i \in 1..Len(SelectSeq(<<"fa", "fb", "fc", "fd">>,
                            LAMBDA f : f \in Outputs(e) \cap UrgentFiles \cap WriteFiles)) |->
        ServerProvideFile(SelectSeq(<<"fa", "fb", "fc", "fd">>,
                            LAMBDA f : f \in Outputs(e) \cap UrgentFiles \cap WriteFiles)[i],
                          result.status.kind = "Success")]
    \o (IF e \in WatchedExecs THEN << NotifyDone(e, result) >> ELSE <<>>)

\* What a completed execution sends to the client: NotifyDone when the
\* execution is watched, then each urgent watched output.
CompletionMsgs(e, result) ==
    (IF e \in WatchedExecs THEN << NotifyDone(e, result) >> ELSE <<>>)
    \o [i \in 1..Len(SelectSeq(<<"fa", "fb", "fc", "fd">>,
                            LAMBDA f : f \in Outputs(e) \cap UrgentFiles \cap WriteFiles)) |->
        ServerProvideFile(SelectSeq(<<"fa", "fb", "fc", "fd">>,
                            LAMBDA f : f \in Outputs(e) \cap UrgentFiles \cap WriteFiles)[i],
                          result.status.kind = "Success")]

\* The executions a completed execution marks skipped: none after a
\* success, else every transitive consumer.
SkipSet(e, result) == IF result.status.kind = "Success" THEN {} ELSE Downstream(e)

\* The group e has completed with the result and the keys of its outputs:
\* the outputs are resolved, a result that is not a success marks every
\* transitive consumer skipped, the consumers with every input resolved
\* become ready, the client is told, and with nothing pending or running
\* left Done is emitted.
FinishWith(e, result, outkeys, queue, skip) ==
    LET keys1 == [f \in DOMAIN sc_keys \cup Outputs(e) |->
                    IF f \in Outputs(e) THEN outkeys[f] ELSE sc_keys[f]]
        woken == {c \in Execs \ (skip \cup {e}) :
                    sc_state[c] = "pending" /\ Inputs(c) \subseteq DOMAIN sc_keys \cup Outputs(e)}
        st2 == [x \in Execs |-> IF x = e THEN "done"
                                ELSE IF x \in skip THEN "skipped"
                                ELSE IF sc_state[x] = "pending"
                                        /\ Inputs(x) \subseteq DOMAIN sc_keys \cup Outputs(e)
                                     THEN "ready" ELSE sc_state[x]]
        res1 == [sc_results EXCEPT ![e] = result]
        skips == [i \in 1..Len(SeqOf(skip \cap WatchedExecs)) |->
                    NotifySkip(SeqOf(skip \cap WatchedExecs)[i])]
        settled == \A x \in Execs \ (skip \cup {e}) :
                        /\ sc_state[x] \in {"done", "skipped"}
    IN [state |-> st2,
        ready |-> PushAll(queue, SeqOf(woken)),
        keys |-> keys1,
        results |-> res1,
        phase |-> IF settled THEN "done" ELSE "run",
        msgs |-> CompletionMsgs(e, result) \o skips
                 \o (IF settled
                     THEN << [t |-> "Done", result |-> DoneList(keys1, res1)] >>
                     ELSE <<>>)]

Finish(e, result, outkeys, queue) ==
    CHOOSE fin \in {FinishWith(e, result, outkeys, queue, skip) :
                        skip \in {SkipSet(e, result)}} : TRUE

IdleWorkers == {w \in Workers : sc_workers[w].conn = "idle"}

\* The scheduling loop has something to do.
CanDispatch == sc_phase = "run" /\ sc_ready # <<>> /\ IdleWorkers # {}

Started(e) == \E i \in 1..Len(s2c) : s2c[i].t = "NotifyStart" /\ s2c[i].uuid = e

SchedInit ==
    /\ sc_phase = "wait"
    /\ sc_state = [e \in Execs |-> "none"]
    /\ sc_ready = <<>>
    /\ sc_keys = <<>>
    /\ sc_results = [e \in Execs |-> NoResult]
    /\ sc_cached = {}
    /\ sc_workers = [w \in Workers |-> [conn |-> "idle", job |-> "none"]]
    /\ sc_work = <<>>
    /\ s2c = <<>>
    /\ cl_rd = 0
    /\ sc_rd = 0

\* One turn of the scheduling loop: the head of the ready queue is popped
\* and the cache consulted. A Hit completes the group with synthesized
\* NotifyStart and NotifyDone; a Miss assigns it to an idle worker with a
\* Work message, and the client is told of the start once.
SchTick ==
    /\ CanDispatch
    /\ \E hit \in {CacheGet(cache_entries, GroupOf(Head(sc_ready)),
                            Restrict(sc_keys, Inputs(Head(sc_ready))), fs_keys)} :
       LET e == Head(sc_ready)
       IN IF hit.hit
          THEN \E fin \in {Finish(e, hit.result[1], hit.outputs, PopReady(sc_ready))} :
               /\ sc_state' = fin.state
               /\ sc_ready' = fin.ready
               /\ sc_keys' = fin.keys
               /\ sc_results' = fin.results
               /\ sc_phase' = fin.phase
               /\ sc_cached' = sc_cached \cup {e}
               /\ s2c' = s2c \o (IF e \in WatchedExecs /\ ~Started(e)
                                 THEN << NotifyStart(e, "cache") >> ELSE <<>>)
                             \o fin.msgs
               /\ UNCHANGED <<sc_workers, sc_work>>
          ELSE \E w \in IdleWorkers :
               /\ sc_workers' = [sc_workers EXCEPT ![w] = [conn |-> "busy", job |-> e]]
               /\ sc_work' = Append(sc_work, <<w, e>>)
               /\ sc_state' = [sc_state EXCEPT ![e] = "running"]
               /\ sc_ready' = PopReady(sc_ready)
               /\ s2c' = s2c \o (IF e \in WatchedExecs /\ ~Started(e)
                                 THEN << NotifyStart(e, w) >> ELSE <<>>)
               /\ UNCHANGED <<sc_keys, sc_results, sc_phase, sc_cached>>
    /\ UNCHANGED <<cache_entries, fs_keys, cache_last, cache_inserts, cl_rd, sc_rd>>

\* WorkerDone from the worker w: the outputs, already uploaded, are recorded
\* in the file store, results that are all cacheable go into the cache, the
\* group is completed, and the worker is idle again. After the session was
\* dropped the result is ignored.
SchWorkerDone(w, outcome) ==
    /\ sc_workers[w].conn = "busy"
    /\ ~CanDispatch
    /\ sc_workers' = [sc_workers EXCEPT ![w] = [conn |-> "idle", job |-> "none"]]
    /\ IF sc_phase # "run"
       THEN UNCHANGED <<sc_state, sc_ready, sc_keys, sc_results, sc_phase, s2c,
                        cache_entries, fs_keys>>
       ELSE \E result \in {ComputeExecutionResult(GroupOf(sc_workers[w].job).execs[1].limits,
                                                  outcome)} :
            \E fin \in {Finish(sc_workers[w].job, result,
                               [f \in Outputs(sc_workers[w].job) |-> KeyOfFile(f)],
                               sc_ready)} :
               /\ sc_state' = fin.state
               /\ sc_ready' = fin.ready
               /\ sc_keys' = fin.keys
               /\ sc_results' = fin.results
               /\ sc_phase' = fin.phase
               /\ s2c' = s2c \o fin.msgs
               /\ fs_keys' = fs_keys \cup {KeyOfFile(f) : f \in Outputs(sc_workers[w].job)}
               /\ cache_entries' =
                    IF GroupCacheable(<< result >>)
                    THEN CacheInsert(cache_entries, GroupOf(sc_workers[w].job),
                                     Restrict(fin.keys, Inputs(sc_workers[w].job)
                                                        \cup Outputs(sc_workers[w].job)),
                                     << result >>)
                    ELSE cache_entries
    /\ UNCHANGED <<sc_cached, sc_work, cache_last, cache_inserts, cl_rd, sc_rd>>

\* The channel of the worker w is gone: the worker leaves the registry and,
\* unless the session was dropped, its job is requeued.
SchWorkerGone(w) ==
    /\ sc_workers[w].conn # "gone"
    /\ ~CanDispatch
    /\ sc_workers' = [sc_workers EXCEPT ![w] = [conn |-> "gone", job |-> "none"]]
    /\ IF sc_workers[w].conn = "busy" /\ sc_phase = "run"
       THEN /\ sc_ready' = Requeue(sc_ready, sc_workers[w].job)
            /\ sc_state' = [sc_state EXCEPT ![sc_workers[w].job] = "ready"]
       ELSE UNCHANGED <<sc_ready, sc_state>>
    /\ UNCHANGED <<sc_phase, sc_keys, sc_results, sc_cached, sc_work, s2c, cl_rd, sc_rd,
                   cacheVars>>

NextOfClient == c2s[sc_rd + 1]

\* Evaluate(dag, callbacks): the DAG is valid; the provided file whose key
\* is in the file store is resolved at once, else it is asked of the client;
\* the executions with every input resolved are ready, the others pending.
SchHandleEvaluate ==
    /\ sc_phase = "wait"
    /\ sc_rd < Len(c2s) /\ NextOfClient.t = "Evaluate"
    /\ sc_rd' = sc_rd + 1
    /\ sc_phase' = "run"
    /\ LET keys == IF "kp" \in fs_keys THEN [f \in {"p"} |-> "kp"] ELSE <<>>
           ready == {e \in Execs : Inputs(e) \subseteq DOMAIN keys}
       IN /\ sc_keys' = keys
          /\ sc_state' = [e \in Execs |-> IF e \in ready THEN "ready" ELSE "pending"]
          /\ sc_ready' = PushAll(<<>>, SeqOf(ready))
          /\ s2c' = IF "kp" \in fs_keys THEN s2c ELSE Append(s2c, Msg("AskFile", "p"))
    /\ UNCHANGED <<sc_results, sc_cached, sc_workers, sc_work, cl_rd, cacheVars>>

\* ProvideFile(uuid, key) and its chunks from the client: the file goes into
\* the file store and is resolved, and its consumers may become ready.
SchHandleProvideFile ==
    /\ sc_phase = "run" /\ ~CanDispatch
    /\ sc_rd < Len(c2s) /\ NextOfClient.t = "ProvideFile"
    /\ sc_rd' = sc_rd + 1
    /\ LET f == NextOfClient.uuid
           keys == [x \in DOMAIN sc_keys \cup {f} |->
                        IF x = f THEN NextOfClient.key ELSE sc_keys[x]]
           woken == {e \in Execs : sc_state[e] = "pending" /\ Inputs(e) \subseteq DOMAIN keys}
       IN /\ fs_keys' = fs_keys \cup {NextOfClient.key}
          /\ sc_keys' = keys
          /\ sc_state' = [e \in Execs |-> IF e \in woken THEN "ready" ELSE sc_state[e]]
          /\ sc_ready' = PushAll(sc_ready, SeqOf(woken))
    /\ UNCHANGED <<sc_phase, sc_results, sc_cached, sc_workers, sc_work, s2c, cl_rd,
                   cache_entries, cache_last, cache_inserts>>

\* AskFile(uuid, key, success) from the client, after Done: the file is sent.
SchHandleAskFile ==
    /\ sc_phase = "done"
    /\ sc_rd < Len(c2s) /\ NextOfClient.t = "AskFile"
    /\ sc_rd' = sc_rd + 1
    /\ s2c' = Append(s2c, ServerProvideFile(NextOfClient.uuid, NextOfClient.success))
    /\ UNCHANGED <<sc_phase, sc_state, sc_ready, sc_keys, sc_results, sc_cached, sc_workers,
                   sc_work, cl_rd, cacheVars>>

\* ---- the client of the session, without its status poller

\* start_evaluation: Evaluate is sent.
SessionStart ==
    /\ cl_pc = "start"
    /\ c2s' = Append(c2s, Msg("Evaluate", "none"))
    /\ cl_pc' = "recv"
    /\ UNCHANGED <<cl_ret, cl_missing, cl_file, po_pc, file_mode, done_flag, srv, cl_rd>>

\* One turn of the loop of evaluate: AskFile is answered with the file,
\* ProvideFile counts one missing file less once Done has been seen, Done
\* asks for the files the client's store lacks, the notifications run the
\* callbacks.
SessionRecv ==
    /\ cl_pc = "recv" /\ LoopGoesOn
    /\ cl_rd < Len(s2c)
    /\ cl_rd' = cl_rd + 1
    /\ LET m == s2c[cl_rd + 1]
       IN CASE m.t = "AskFile" ->
                /\ c2s' = Append(c2s, [t |-> "ProvideFile", uuid |-> m.uuid, key |-> "kp"])
                /\ UNCHANGED cl_missing
            [] m.t = "ProvideFile" ->
                /\ cl_missing' = IF cl_missing # NoCount THEN cl_missing - 1 ELSE cl_missing
                /\ UNCHANGED c2s
            [] m.t = "Done" ->
                /\ c2s' = c2s \o AskFilesOf(m.result, ClientStore)
                /\ cl_missing' = Len(MissingOf(m.result, ClientStore))
            [] OTHER -> UNCHANGED <<c2s, cl_missing>>
    /\ UNCHANGED <<cl_pc, cl_ret, cl_file, po_pc, file_mode, done_flag, srv>>

\* The loop condition fails: evaluate returns Ok(()).
SessionEnd ==
    /\ cl_pc = "recv" /\ ~LoopGoesOn
    /\ cl_pc' = "returned"
    /\ cl_ret' = "ok"
    /\ UNCHANGED <<cl_missing, cl_file, po_pc, file_mode, done_flag, srv, c2s, cl_rd>>

\* A callback fails: evaluate returns the error and the channel drops; the
\* scheduler sees the client gone and drops the session.
SessionFail ==
    /\ cl_pc = "recv" /\ LoopGoesOn
    /\ cl_pc' = "returned"
    /\ cl_ret' = "err"
    /\ sc_phase' = "torn"
    /\ UNCHANGED <<cl_missing, cl_file, po_pc, file_mode, done_flag, srv, c2s, cl_rd,
                   sc_state, sc_ready, sc_keys, sc_results, sc_cached, sc_workers, sc_work,
                   s2c, sc_rd>>

SessionVars == <<cl_pc, cl_ret, cl_missing, cl_file, po_pc, file_mode, done_flag, c2s, srv>>

\* What the scheduler's steps leave alone, and what the client's steps do.
SchFrame == UNCHANGED <<SessionVars, workerVars, diskVars, storeVars, evictVars, writeVars, funVars>>
SessionFrame == UNCHANGED <<cacheVars, workerVars, diskVars, storeVars, evictVars, writeVars, funVars>>
SessionOnly == UNCHANGED <<sc_phase, sc_state, sc_ready, sc_keys, sc_results, sc_cached,
                           sc_workers, sc_work, s2c, sc_rd>>

SchedOutcomes == {RunCheap, RunExit1, RunFailed}

SchedNext ==
    \/ SchTick /\ SchFrame
    \/ \E w \in Workers : \E o \in SchedOutcomes : SchWorkerDone(w, o) /\ SchFrame
    \/ \E w \in Workers : SchWorkerGone(w) /\ SchFrame
    \/ SchHandleEvaluate /\ SchFrame
    \/ SchHandleProvideFile /\ SchFrame
    \/ SchHandleAskFile /\ SchFrame
    \/ SessionStart /\ SessionOnly /\ SessionFrame
    \/ SessionRecv /\ SessionOnly /\ SessionFrame
    \/ SessionEnd /\ SessionOnly /\ SessionFrame
    \/ SessionFail /\ SessionFrame

\* The caches a session may find: empty, with the success of A recorded by
\* an earlier session, or with that and a failure of B; and the file store
\* that goes with each.
CacheA ==
    CacheInsert(<<>>, GroupOf("A"),
                [f \in {"p", "fa"} |-> IF f = "p" THEN "kp" ELSE KeyOfFile(f)],
                << ComputeExecutionResult(Unlimited, RunCheap) >>)

CacheAB ==
    CacheInsert(CacheA, GroupOf("B"),
                [f \in {"fa", "fb"} |-> KeyOfFile(f)],
                << ComputeExecutionResult(Unlimited, RunExit1) >>)

SchedStarts ==
    { [cache |-> <<>>, fs |-> {}],
      [cache |-> <<>>, fs |-> {"kp"}],
      [cache |-> CacheA, fs |-> {"kp", KeyOfFile("fa")}],
      [cache |-> CacheAB, fs |-> {KeyOfFile("fa"), KeyOfFile("fb")}] }

\* =========================================================================
\* The cache of the server: loaded at startup, filled by the executor,
\* written to its file on Drop
\* =========================================================================

\* What cache.bin holds: no file, bytes that do not deserialize, or the
\* entries that storage::store wrote.
NoCacheFile == [kind |-> "absent", entries |-> <<>>]
BrokenCacheFile == [kind |-> "broken", entries |-> <<>>]
SavedCacheFile(entries) == [kind |-> "saved", entries |-> entries]

\* storage::load: the entries of the file, or an error.
StorageLoad(file) ==
    IF file.kind = "saved"
    THEN [ok |-> TRUE, entries |-> file.entries]
    ELSE [ok |-> FALSE, entries |-> <<>>]

\* A mutant of CacheNew: the error of storage::load is returned.
CacheNewStrict(file) ==
    IF file.kind # "absent" THEN StorageLoad(file) ELSE [ok |-> TRUE, entries |-> <<>>]

\* Cache::new: if the file exists its content is loaded; a load that fails
\* is logged and replaced by the default, the empty map.
CacheNew(file) ==
    IF file.kind # "absent"
    THEN [ok |-> TRUE,
          entries |-> IF StorageLoad(file).ok THEN StorageLoad(file).entries ELSE <<>>]
    ELSE [ok |-> TRUE, entries |-> <<>>]

\* The groups the server of the model runs.
ServerGroups ==
    {CacheGroup1(Unlimited), CacheGroup1([cpu |-> 1, mem |-> NoLimit]), CacheGroup2(Unlimited)}

DiskInit ==
    /\ cache_file \in {NoCacheFile, BrokenCacheFile}
    /\ cache_obj = "none"

DiskRest == DiskInit /\ cache_file = NoCacheFile

CacheCall(op) == [NoCall EXCEPT !.op = op]

\* main_server: Cache::new(...).expect("Cannot create the cache").
MainServer ==
    /\ cache_obj = "none"
    /\ cache_obj' = IF CacheNew(cache_file).ok THEN "open" ELSE "panicked"
    /\ cache_entries' = CacheNew(cache_file).entries
    /\ cache_last' = CacheCall("new")
    /\ UNCHANGED <<cache_file, fs_keys, cache_inserts>>

\* The executor handles the WorkerDone of a group: the results go into the
\* cache only if every one of them is cacheable.
ExecutorWorkerDone(group, fk, results) ==
    /\ cache_obj = "open"
    /\ cache_inserts < MaxInserts
    /\ Range(fk) \subseteq fs_keys
    /\ IF GroupCacheable(results)
       THEN /\ cache_entries' = CacheInsert(cache_entries, group, fk, results)
            /\ cache_inserts' = cache_inserts + 1
       ELSE UNCHANGED <<cache_entries, cache_inserts>>
    /\ cache_last' = [op |-> "done", group |-> group, fk |-> fk, ins |-> results,
                      res |-> CacheMiss, after |-> FALSE]
    /\ UNCHANGED <<fs_keys, cache_file, cache_obj>>

\* The scheduler looks a group up.
ExecutorLookup(group, fk) ==
    /\ cache_obj = "open"
    /\ CacheDoGet(group, fk)
    /\ UNCHANGED <<cache_file, cache_obj>>

\* Drop for Cache: storage::store writes the entries; when it fails the error
\* is logged, and the file is as it was or is left half written.
CacheDrop(stored) ==
    /\ cache_obj = "open"
    /\ cache_obj' = "none"
    /\ cache_file' = IF stored = "ok" THEN SavedCacheFile(cache_entries)
                     ELSE IF stored = "partial" THEN BrokenCacheFile
                     ELSE cache_file
    /\ cache_entries' = <<>>
    /\ cache_last' = CacheCall("drop")
    /\ UNCHANGED <<fs_keys, cache_inserts>>

\* While no server runs, the file is damaged or removed.
CacheFileDamage(removed) ==
    /\ cache_obj = "none"
    /\ cache_file.kind = "saved"
    /\ cache_file' = IF removed THEN NoCacheFile ELSE BrokenCacheFile
    /\ cache_last' = CacheCall("damage")
    /\ UNCHANGED <<cache_entries, fs_keys, cache_inserts, cache_obj>>

ServerCacheFrame == UNCHANGED <<clientVars, workerVars, schedVars, storeVars, evictVars, writeVars, funVars>>

ServerCacheNext ==
    \/ MainServer /\ ServerCacheFrame
    \/ \E g \in ServerGroups : \E r \in GroupRuns(g) :
          ExecutorWorkerDone(g, r.fk, r.results) /\ ServerCacheFrame
    \/ \E g \in ServerGroups : \E fk \in InputMaps(g) :
          ExecutorLookup(g, fk) /\ ServerCacheFrame
    \/ \E stored \in {"ok", "partial", "failed"} : CacheDrop(stored) /\ ServerCacheFrame
    \/ \E removed \in BOOLEAN : CacheFileDamage(removed) /\ ServerCacheFrame

\* =========================================================================
\* The file store
\* =========================================================================

\* PERSISTENCY_DURATION, in seconds.
PersistencyDuration == 600

\* The processes that open the store directory.
Procs == {"s1", "s2"}

RECURSIVE SumBytes(_)
SumBytes(bytes) == IF bytes = <<>> THEN 0 ELSE Head(bytes) + SumBytes(Tail(bytes))

\* The content of a stream of chunks.
RECURSIVE Flatten(_)
Flatten(stream) == IF stream = <<>> THEN <<>> ELSE Head(stream) \o Flatten(Tail(stream))

\* FileStoreKey::from_file: the hash of a content, two bytes of it. The
\* hash stands for Blake2b: it tells apart every two contents of the model.
HashOf(bytes) == << SumBytes(bytes) % 4, Len(bytes) % 2 >>

\* hex::encode of one byte, and FileStoreKey::to_string.
HexByte(b) == << "00", "01", "02", "03" >>[b + 1]
KeyToString(key) == [i \in 1..Len(key) |-> HexByte(key[i])]

\* FileStore::key_to_path: <base>/<hex of byte 0>/<hex of byte 1>/<hex of the key>.
KeyToPath(key) == << "store", HexByte(key[1]), HexByte(key[2]), KeyToString(key) >>

\* read_store_file: the path of the item that is named name in the index,
\* <base>/name[0..2]/name[2..4]/name.
ItemPath(name) == << "store", name[1], name[2], name >>

\* The streams handed to store, and the keys of their contents.
StoreStreams == { << <<0>> >>, << <<0>>, <<1>> >> }
StoreKeys == {HashOf(Flatten(s)) : s \in StoreStreams}

\* A file on disk: its bytes, and whether its created and modified
\* timestamps agree.
DiskFile(bytes, same) == [bytes |-> bytes, same_times |-> same]

DiskPut(disk, path, file) ==
    [q \in DOMAIN disk \cup {path} |-> IF q = path THEN file ELSE disk[q]]

DiskRemove(disk, path) == [q \in DOMAIN disk \ {path} |-> disk[q]]

\* FileStoreData::remove
DataRemove(data, key) == [s \in DOMAIN data \ {KeyToString(key)} |-> data[s]]

\* FileStoreData::get_mut(key).persist(): the item, made if needed, is
\* persistent until now + PERSISTENCY_DURATION.
DataPersist(data, key, now) ==
    [s \in DOMAIN data \cup {KeyToString(key)} |->
        IF s = KeyToString(key) THEN now + PersistencyDuration ELSE data[s]]

\* What store_info holds: the serialized FileStoreData, or bytes that do
\* not parse.
InfoAbsent == [kind |-> "absent", items |-> <<>>]
InfoBroken == [kind |-> "broken", items |-> <<>>]
InfoOf(data) == [kind |-> "valid", items |-> data]

\* A mutant of CheckIntegrity: a file that exists is trusted.
CheckIntegrityTrusting(disk, key) == TRUE

\* FileStore::check_integrity: a file whose created and modified timestamps
\* agree is trusted, any other is hashed again.
CheckIntegrity(disk, key) ==
    IF disk[KeyToPath(key)].same_times
    THEN TRUE
    ELSE HashOf(disk[KeyToPath(key)].bytes) = key

\* A mutant of HasKey: the key is never there.
HasKeyNever(disk, data, key) == [ret |-> FALSE, disk |-> disk, data |-> data]

\* FileStore::has_key: the answer, and the disk and the index it leaves.
HasKey(disk, data, key) ==
    IF KeyToPath(key) \notin DOMAIN disk
    THEN [ret |-> FALSE, disk |-> disk, data |-> data]
    ELSE IF ~CheckIntegrity(disk, key)
    THEN [ret |-> FALSE, disk |-> DiskRemove(disk, KeyToPath(key)),
          data |-> DataRemove(data, key)]
    ELSE [ret |-> TRUE, disk |-> disk, data |-> data]

\* What reaches the disk of a stream: all of it, or, when a write_all
\* fails, the chunks before the failing one.
Written(stream, wrote) ==
    IF wrote = "all" THEN Flatten(stream) ELSE Flatten(SubSeq(stream, 1, Len(stream) - 1))

\* FileStore::store: a key that is there has its stream consumed and its
\* item refreshed; otherwise the file is created and the chunks are written,
\* the result of each write_all being dropped. Both end with flush.
StoreBlob(disk, data, key, stream, wrote, same, now) ==
    LET has == HasKey(disk, data, key)
        newdata == DataPersist(has.data, key, now)
    IN [ret |-> "ok",
        had |-> has.ret,
        consumed |-> Len(stream),
        disk |-> IF has.ret THEN has.disk
                 ELSE DiskPut(has.disk, KeyToPath(key), DiskFile(Written(stream, wrote), same)),
        data |-> newdata,
        info |-> InfoOf(newdata)]

\* The Option<PathBuf> that is None.
NoPath == << >>

\* FileStore::get: a missing file drops the item and flushes; a file that
\* fails the integrity check is dropped with its item, without a flush; any
\* other file is made persistent and its path returned.
GetBlob(disk, data, info, key, now) ==
    IF KeyToPath(key) \notin DOMAIN disk
    THEN [ret |-> NoPath, disk |-> disk, data |-> DataRemove(data, key),
          info |-> InfoOf(DataRemove(data, key))]
    ELSE IF ~CheckIntegrity(disk, key)
    THEN [ret |-> NoPath, disk |-> DiskRemove(disk, KeyToPath(key)),
          data |-> DataRemove(data, key), info |-> info]
    ELSE [ret |-> KeyToPath(key), disk |-> disk, data |-> DataPersist(data, key, now),
          info |-> InfoOf(DataPersist(data, key, now))]

\* FileStore::persist
PersistBlob(disk, data, info, key, now) ==
    IF KeyToPath(key) \notin DOMAIN disk
    THEN [ret |-> "NotFound", data |-> data, info |-> info]
    ELSE [ret |-> "ok", data |-> DataPersist(data, key, now),
          info |-> InfoOf(DataPersist(data, key, now))]

\* A mutant of ReadStoreFile: bytes that do not parse are read as an empty
\* index.
ReadStoreFileLenient(info, disk) ==
    IF info.kind # "valid"
    THEN [ok |-> TRUE, data |-> <<>>]
    ELSE [ok |-> TRUE,
          data |-> [s \in {n \in DOMAIN info.items : ItemPath(n) \in DOMAIN disk} |->
                       info.items[s]]]

\* read_store_file: the parsed index without the items whose file is gone,
\* or an error.
ReadStoreFile(info, disk) ==
    IF info.kind # "valid"
    THEN [ok |-> FALSE, data |-> <<>>]
    ELSE [ok |-> TRUE,
          data |-> [s \in {n \in DOMAIN info.items : ItemPath(n) \in DOMAIN disk} |->
                       info.items[s]]]

\* What a call finds at a path before it acts.
Stat(disk, path) ==
    IF path \in DOMAIN disk
    THEN [exists |-> TRUE, file |-> disk[path]]
    ELSE [exists |-> FALSE, file |-> DiskFile(<<>>, TRUE)]

\* The record of the last call: who called what, what it found at the path
\* of the key, and what it returned.
NoStoreCall == [op |-> "none", p |-> "none", key |-> <<>>, ret |-> "none", stream |-> <<>>,
                had |-> FALSE, consumed |-> 0, after |-> FALSE, before |-> Stat(<<>>, <<>>)]

StoreInit ==
    /\ st_disk = <<>>
    /\ st_info = InfoAbsent
    /\ st_lock = "none"
    /\ st_proc = [p \in Procs |-> [pc |-> "none", data |-> <<>>]]
    /\ st_ops = 0
    /\ st_last = NoStoreCall

StoreCall(op, p) == [NoStoreCall EXCEPT !.op = op, !.p = p]

\* FileStore::new, up to the open of store_info: the directory is made, and
\* the file, if it does not exist, is created with an empty index.
StNewOpen(p) ==
    /\ st_proc[p].pc \in {"none", "failed"}
    /\ st_proc' = [st_proc EXCEPT ![p].pc = "opened"]
    /\ st_info' = IF st_info.kind = "absent" THEN InfoOf(<<>>) ELSE st_info
    /\ st_last' = StoreCall("new", p)
    /\ UNCHANGED <<st_disk, st_lock, st_ops>>

\* A mutant of StNewTryLock: the lock is granted whoever holds it.
StNewTryLockAlways(p) ==
    /\ st_proc[p].pc = "opened"
    /\ st_lock' = p
    /\ st_proc' = [st_proc EXCEPT ![p].pc = "locked"]
    /\ st_last' = StoreCall("try_lock", p)
    /\ UNCHANGED <<st_disk, st_info, st_ops>>

\* file.try_lock_exclusive(): the lock is taken, or it is contended and the
\* call goes on to lock_exclusive.
StNewTryLock(p) ==
    /\ st_proc[p].pc = "opened"
    /\ IF st_lock = "none"
       THEN st_lock' = p /\ st_proc' = [st_proc EXCEPT ![p].pc = "locked"]
       ELSE st_lock' = st_lock /\ st_proc' = [st_proc EXCEPT ![p].pc = "blocked"]
    /\ st_last' = StoreCall("try_lock", p)
    /\ UNCHANGED <<st_disk, st_info, st_ops>>

\* file.lock_exclusive() returns: the lock was released and is now held.
StNewWait(p) ==
    /\ st_proc[p].pc = "blocked"
    /\ st_lock = "none"
    /\ st_lock' = p
    /\ st_proc' = [st_proc EXCEPT ![p].pc = "locked"]
    /\ st_last' = StoreCall("lock", p)
    /\ UNCHANGED <<st_disk, st_info, st_ops>>

\* read_store_file and the return of FileStore::new: on an error the file
\* is closed, which releases the lock.
StNewRead(p) ==
    /\ st_proc[p].pc = "locked"
    /\ IF ReadStoreFile(st_info, st_disk).ok
       THEN /\ st_proc' = [st_proc EXCEPT ![p] = [pc |-> "open",
                                                   data |-> ReadStoreFile(st_info, st_disk).data]]
            /\ st_lock' = st_lock
       ELSE /\ st_proc' = [st_proc EXCEPT ![p].pc = "failed"]
            /\ st_lock' = "none"
    /\ st_last' = [StoreCall("read", p) EXCEPT
                      !.ret = IF ReadStoreFile(st_info, st_disk).ok THEN "ok" ELSE "err"]
    /\ UNCHANGED <<st_disk, st_info, st_ops>>

\* The FileStore is dropped: its File is closed and the lock released.
StDrop(p) ==
    /\ st_proc[p].pc = "open"
    /\ st_proc' = [st_proc EXCEPT ![p] = [pc |-> "none", data |-> <<>>]]
    /\ st_lock' = "none"
    /\ st_last' = StoreCall("drop", p)
    /\ UNCHANGED <<st_disk, st_info, st_ops>>

StCanCall(p) == st_proc[p].pc = "open" /\ st_ops < MaxStoreOps

\* store(key, stream); wrote tells whether every write_all succeeded, same
\* whether the timestamps of the new file agree.
StStore(p, key, stream, wrote, same) ==
    /\ StCanCall(p)
    /\ \E r \in {StoreBlob(st_disk, st_proc[p].data, key, stream, wrote, same, st_ops)} :
          /\ st_disk' = r.disk
          /\ st_proc' = [st_proc EXCEPT ![p].data = r.data]
          /\ st_info' = r.info
          /\ st_last' = [op |-> "store", p |-> p, key |-> key, ret |-> r.ret,
                         stream |-> stream, had |-> r.had, consumed |-> r.consumed,
                         after |-> FALSE, before |-> Stat(st_disk, KeyToPath(key))]
    /\ st_ops' = st_ops + 1
    /\ UNCHANGED st_lock

\* The call follows a store of the key by the same FileStore, which
\* returned Ok, with nothing in between.
FollowsStore(p, key) ==
    st_last.op = "store" /\ st_last.p = p /\ st_last.key = key /\ st_last.ret = "ok"

\* get(key); the record keeps the stream of the store it follows.
StGet(p, key) ==
    /\ StCanCall(p)
    /\ \E r \in {GetBlob(st_disk, st_proc[p].data, st_info, key, st_ops)} :
          /\ st_disk' = r.disk
          /\ st_proc' = [st_proc EXCEPT ![p].data = r.data]
          /\ st_info' = r.info
          /\ st_last' = [op |-> "get", p |-> p, key |-> key, ret |-> r.ret,
                         stream |-> IF FollowsStore(p, key) THEN st_last.stream ELSE <<>>,
                         had |-> FALSE, consumed |-> 0,
                         after |-> FollowsStore(p, key),
                         before |-> Stat(st_disk, KeyToPath(key))]
    /\ st_ops' = st_ops + 1
    /\ UNCHANGED st_lock

\* has_key(key)
StHasKey(p, key) ==
    /\ StCanCall(p)
    /\ \E r \in {HasKey(st_disk, st_proc[p].data, key)} :
          /\ st_disk' = r.disk
          /\ st_proc' = [st_proc EXCEPT ![p].data = r.data]
          /\ st_last' = [StoreCall("has_key", p) EXCEPT
                            !.key = key, !.ret = IF r.ret THEN "true" ELSE "false",
                            !.before = Stat(st_disk, KeyToPath(key))]
    /\ st_ops' = st_ops + 1
    /\ UNCHANGED <<st_info, st_lock>>

\* persist(key)
StPersist(p, key) ==
    /\ StCanCall(p)
    /\ \E r \in {PersistBlob(st_disk, st_proc[p].data, st_info, key, st_ops)} :
          /\ st_proc' = [st_proc EXCEPT ![p].data = r.data]
          /\ st_info' = r.info
          /\ st_last' = [StoreCall("persist", p) EXCEPT !.key = key, !.ret = r.ret]
    /\ st_ops' = st_ops + 1
    /\ UNCHANGED <<st_disk, st_lock>>

\* What a damaged blob holds: its first byte is overwritten.
Damaged(bytes) == IF bytes = <<>> THEN <<2>> ELSE <<2>> \o Tail(bytes)

\* The bytes of a blob are modified behind the store; kept tells whether
\* the modification leaves the modified timestamp as it was.
DiskDamage(key, kept) ==
    /\ KeyToPath(key) \in DOMAIN st_disk
    /\ HashOf(st_disk[KeyToPath(key)].bytes) = key
    /\ st_disk' = DiskPut(st_disk, KeyToPath(key),
                          DiskFile(Damaged(st_disk[KeyToPath(key)].bytes),
                                   kept /\ st_disk[KeyToPath(key)].same_times))
    /\ st_last' = [StoreCall("damage", "none") EXCEPT !.key = key]
    /\ UNCHANGED <<st_info, st_lock, st_proc, st_ops>>

\* A blob is removed behind the store.
DiskLose(key) ==
    /\ KeyToPath(key) \in DOMAIN st_disk
    /\ st_disk' = DiskRemove(st_disk, KeyToPath(key))
    /\ st_last' = StoreCall("lose", "none")
    /\ UNCHANGED <<st_info, st_lock, st_proc, st_ops>>

\* store_info is overwritten with bytes that do not parse while no
\* FileStore is open.
InfoDamage ==
    /\ st_lock = "none"
    /\ st_info.kind = "valid"
    /\ st_info' = InfoBroken
    /\ st_last' = StoreCall("damage_info", "none")
    /\ UNCHANGED <<st_disk, st_lock, st_proc, st_ops>>

StoreFrame == UNCHANGED <<cacheVars, clientVars, workerVars, schedVars, diskVars, evictVars, writeVars, funVars>>

StoreNext ==
    \/ \E p \in Procs : StNewOpen(p) /\ StoreFrame
    \/ \E p \in Procs : StNewTryLock(p) /\ StoreFrame
    \/ \E p \in Procs : StNewWait(p) /\ StoreFrame
    \/ \E p \in Procs : StNewRead(p) /\ StoreFrame
    \/ \E p \in Procs : StDrop(p) /\ StoreFrame
    \/ \E p \in Procs : \E k \in StoreKeys : \E s \in StoreStreams :
          \E wrote \in {"all", "part"} : \E same \in BOOLEAN :
             StStore(p, k, s, wrote, same) /\ StoreFrame
    \/ \E p \in Procs : \E k \in StoreKeys : StGet(p, k) /\ StoreFrame
    \/ \E p \in Procs : \E k \in StoreKeys : StHasKey(p, k) /\ StoreFrame
    \/ \E p \in Procs : \E k \in StoreKeys : StPersist(p, k) /\ StoreFrame
    \/ \E k \in StoreKeys : \E kept \in BOOLEAN : DiskDamage(k, kept) /\ StoreFrame
    \/ \E k \in StoreKeys : DiskLose(k) /\ StoreFrame
    \/ InfoDamage /\ StoreFrame

\* The processes that open, use and drop the store, with a store_info that
\* may be damaged while nobody holds it.
StoreFairNext ==
    \/ \E p \in Procs : StNewOpen(p) /\ StoreFrame
    \/ \E p \in Procs : StNewTryLock(p) /\ StoreFrame
    \/ \E p \in Procs : StNewWait(p) /\ StoreFrame
    \/ \E p \in Procs : StNewRead(p) /\ StoreFrame
    \/ \E p \in Procs : StDrop(p) /\ StoreFrame
    \/ \E p \in Procs : \E k \in StoreKeys : \E s \in StoreStreams :
          StStore(p, k, s, "all", TRUE) /\ StoreFrame
    \/ \E p \in Procs : \E k \in StoreKeys : StGet(p, k) /\ StoreFrame
    \/ InfoDamage /\ StoreFrame

\* ------------------------------------------------ claims on the file store

\* The last step was the call op of the store.
Called(op) == st_last.op = op

\* The file of the key of the last call, as it is now.
FileNow == Stat(st_disk, KeyToPath(st_last.key))

\* C17, as stated: after store(k, bytes) has returned Ok, the get(k) that
\* follows returns <root>/<h0>/<h1>/<hex(k)>, and the file there hashes to k.
C17_RoundTrip ==
    (Called("get") /\ st_last.after) =>
        /\ st_last.ret = KeyToPath(st_last.key)
        /\ FileNow.exists
        /\ HashOf(FileNow.file.bytes) = st_last.key

\* The failing case of C17: the key is the hash of the stream, the store
\* returned Ok, and get returns the path of a file that does not hash to it.
C17_TruncatedBlob ==
    /\ Called("get") /\ st_last.after
    /\ HashOf(Flatten(st_last.stream)) = st_last.key
    /\ st_last.ret = KeyToPath(st_last.key)
    /\ FileNow.exists
    /\ HashOf(FileNow.file.bytes) # st_last.key

\* The blob of the key is there: its file exists and hashes to the key.
Present(disk, key) ==
    /\ KeyToPath(key) \in DOMAIN disk
    /\ HashOf(disk[KeyToPath(key)].bytes) = key

\* A step that is a call of op.
CallStep(op) == st_ops' = st_ops + 1 /\ st_last'.op = op

\* C18: a store(k, ...) of a key whose blob is already there returns Ok,
\* consumes the whole stream and leaves every file as it was; only the
\* persistence timestamp of the item is refreshed, and flushed to store_info.
C18_SecondStore ==
    (CallStep("store") /\ Present(st_disk, st_last'.key)) =>
        /\ st_last'.ret = "ok"
        /\ st_last'.had
        /\ st_last'.consumed = Len(st_last'.stream)
        /\ st_disk' = st_disk
        /\ st_proc'[st_last'.p].data =
               DataPersist(st_proc[st_last'.p].data, st_last'.key, st_ops)
        /\ st_info' = InfoOf(st_proc'[st_last'.p].data)

Corrupted(disk, key) ==
    /\ KeyToPath(key) \in DOMAIN disk
    /\ HashOf(disk[KeyToPath(key)].bytes) # key

\* The step leaves neither the file of the key nor its item in the index
\* of the FileStore that was called.
DropsBlob ==
    /\ KeyToPath(st_last'.key) \notin DOMAIN st_disk'
    /\ KeyToString(st_last'.key) \notin DOMAIN st_proc'[st_last'.p].data

\* C19, as stated: the get, or the has_key, that follows a modification of
\* the bytes of a blob returns none, or false, and drops the blob.
C19_NextCallAsStated ==
    /\ (CallStep("get") /\ st_last.op = "damage" /\ st_last'.key = st_last.key) =>
           (st_last'.ret = NoPath /\ DropsBlob)
    /\ (CallStep("has_key") /\ st_last.op = "damage" /\ st_last'.key = st_last.key) =>
           (st_last'.ret = "false" /\ DropsBlob)

C19_DroppedAsStated == [][C19_NextCallAsStated]_vars

\* A get, or a has_key, of a key whose file does not hash to it and has
\* timestamps that differ returns none, or false, and drops the blob.
C19_Detected ==
    /\ (CallStep("get") /\ Corrupted(st_disk, st_last'.key)
          /\ ~st_disk[KeyToPath(st_last'.key)].same_times) =>
           (st_last'.ret = NoPath /\ DropsBlob)
    /\ (CallStep("has_key") /\ Corrupted(st_disk, st_last'.key)
          /\ ~st_disk[KeyToPath(st_last'.key)].same_times) =>
           (st_last'.ret = "false" /\ DropsBlob)

\* A has_key of a key whose file is gone returns false, and a file that is
\* gone comes back only by a store of its key.
C19_GoneUntilStored ==
    /\ (CallStep("has_key") /\ KeyToPath(st_last'.key) \notin DOMAIN st_disk) =>
           st_last'.ret = "false"
    /\ \A k \in StoreKeys :
          (KeyToPath(k) \notin DOMAIN st_disk /\ KeyToPath(k) \in DOMAIN st_disk') =>
              (CallStep("store") /\ st_last'.key = k)

\* C19, amended: a modified blob is dropped by the next get or has_key when
\* the modification shows in the timestamps of its file, and it then stays
\* away until it is stored again.
C19_Dropped == [][C19_Detected /\ C19_GoneUntilStored]_vars

\* A get has found a file that does not hash to its key, and dropped it.
C19_Witness ==
    /\ Called("get")
    /\ st_last.before.exists
    /\ HashOf(st_last.before.file.bytes) # st_last.key
    /\ ~st_last.before.file.same_times
    /\ st_last.ret = NoPath
    /\ ~FileNow.exists

\* A has_key was the first to find such a file.
C19_HasKeyWitness ==
    /\ Called("has_key")
    /\ st_last.before.exists
    /\ HashOf(st_last.before.file.bytes) # st_last.key
    /\ ~st_last.before.file.same_times
    /\ st_last.ret = "false"
    /\ ~FileNow.exists

\* The process holds the lock of store_info; its FileStore::new is waiting
\* for it; its FileStore::new has returned.
Holds(p) == st_proc[p].pc \in {"locked", "open"}
Blocked(p) == st_proc[p].pc = "blocked"
Returned(p) == st_proc[p].pc \in {"open", "failed"}

AtMostOneOpen ==
    \A p, q \in Procs : (Holds(p) /\ Holds(q)) => p = q

\* A FileStore::new that finds the directory open blocks, and one that is
\* blocked goes on only when no FileStore is open.
C20_Blocks ==
    \A p \in Procs :
       /\ (st_proc[p].pc = "opened" /\ st_proc'[p].pc # "opened"
            /\ \E q \in Procs \ {p} : Holds(q)) => Blocked(p)'
       /\ (Blocked(p) /\ ~Blocked(p)') => \A q \in Procs : ~Holds(q)

\* When the lock keeps being released, a FileStore::new that is blocked
\* returns.
C20_Completes ==
    \A p \in Procs :
       ([]<>(\A q \in Procs : ~Holds(q))) => (Blocked(p) ~> Returned(p))

\* C20: at most one FileStore is open on the directory; a second
\* FileStore::new blocks on the lock of store_info, goes on only after the
\* first FileStore has been dropped, and then does return.
C20_SingleWriter == []AtMostOneOpen /\ [][C20_Blocks]_vars /\ C20_Completes

\* A FileStore::new that was blocked has taken the lock while the other
\* process, which held it, has dropped its FileStore.
C20_Witness ==
    /\ Called("lock")
    /\ st_lock = st_last.p
    /\ Holds(st_last.p)
    /\ \A q \in Procs \ {st_last.p} : ~Holds(q)

\* The step is a store that created the file of its key and did not
\* write the whole stream to it: a write_all failed.
FailedWrite ==
    /\ CallStep("store") /\ ~st_last'.had
    /\ st_disk'[KeyToPath(st_last'.key)].bytes # Flatten(st_last'.stream)

\* C24, as stated: a store whose write to disk fails returns an error and
\* does not record the key in the index.
C24_FailedWriteFails ==
    [][FailedWrite =>
          /\ st_last'.ret # "ok"
          /\ KeyToString(st_last'.key) \notin DOMAIN st_proc'[st_last'.p].data
          /\ KeyToString(st_last'.key) \notin DOMAIN st_info'.items]_vars

\* The failing case of C24: the get that follows such a store returns the
\* path of the partially written file.
C24_PartialServed ==
    /\ Called("get") /\ st_last.after
    /\ st_last.ret = KeyToPath(st_last.key)
    /\ FileNow.exists
    /\ FileNow.file.bytes # Flatten(st_last.stream)
    /\ FileNow.file.bytes # <<>>

\* The step in which the FileStore::new of p, holding the lock, reads
\* store_info and returns.
NewReturns(p) == st_proc[p].pc = "locked" /\ st_proc'[p].pc # "locked"

\* C21, as stated: a FileStore::new that finds a store_info that does not
\* parse does not fail, and starts with an empty index.
C21_StartsEmpty ==
    \A p \in Procs :
       (NewReturns(p) /\ st_info.kind = "broken") =>
           (st_proc'[p].pc = "open" /\ st_proc'[p].data = <<>>)

C21_CorruptedIndexIsReset == [][C21_StartsEmpty]_vars

\* A FileStore::new that finds a store_info that does not parse returns an
\* error, leaves no FileStore and no lock, and store_info as it was.
C22_Fails ==
    \A p \in Procs :
       (NewReturns(p) /\ st_info.kind # "valid") =>
           /\ st_proc'[p].pc = "failed"
           /\ st_last'.ret = "err"
           /\ st_lock' = "none"
           /\ st_info' = st_info

\* C22: FileStore::new on a directory whose store_info holds no parsable
\* index returns an error, and no FileStore is created.
C22_UnparsableIndexFails == [][C22_Fails]_vars

\* A FileStore::new has returned an error on a broken store_info.
C22_Witness ==
    /\ Called("read") /\ st_last.ret = "err"
    /\ st_info.kind = "broken"
    /\ st_proc[st_last.p].pc = "failed"

\* The step is a call of store, get, has_key or persist that changes the
\* index of the FileStore that was called.
ChangesIndex ==
    /\ \E op \in {"store", "get", "has_key", "persist"} : CallStep(op)
    /\ st_proc'[st_last'.p].data # st_proc[st_last'.p].data

\* store_info holds the index of the FileStore that was called.
IndexWritten == st_info' = InfoOf(st_proc'[st_last'.p].data)

\* The call finds the file of its key, and the file fails the integrity
\* check.
FailsIntegrity ==
    /\ KeyToPath(st_last'.key) \in DOMAIN st_disk
    /\ ~CheckIntegrity(st_disk, st_last'.key)

\* C39, as stated: after every call of store, get, has_key or persist that
\* changes the in-memory index, store_info holds the in-memory index; so an
\* item dropped with a blob that is missing or fails the integrity check is
\* gone from store_info too.
C39_IndexFlushed == [][ChangesIndex => IndexWritten]_vars

\* The calls that write store_info: every call that changes the index
\* writes it, except the get and the has_key that drop a blob that fails
\* the integrity check, which leave store_info as it was.
C39_FlushedUnlessCorrupted ==
    [][ChangesIndex =>
          IF FailsIntegrity /\ (CallStep("get") \/ CallStep("has_key"))
          THEN st_info' = st_info
          ELSE IndexWritten]_vars

\* The failing case of C39: a get or a has_key has dropped a blob that
\* failed the integrity check, and store_info still lists its item.
C39_StaleIndex ==
    /\ Called("get") \/ Called("has_key")
    /\ st_last.before.exists
    /\ HashOf(st_last.before.file.bytes) # st_last.key
    /\ ~FileNow.exists
    /\ KeyToString(st_last.key) \notin DOMAIN st_proc[st_last.p].data
    /\ st_info.kind = "valid"
    /\ KeyToString(st_last.key) \in DOMAIN st_info.items

\* A get has dropped the item of a blob that is missing, and store_info
\* was written without it.
C39_MissingFlushed ==
    /\ Called("get")
    /\ ~st_last.before.exists
    /\ st_info = InfoOf(st_proc[st_last.p].data)
    /\ st_last.ret = NoPath
    /\ \E q \in DOMAIN st_disk : TRUE

\* =========================================================================
\* Eviction in the server's file store: FileStore::new(path, max_cache,
\* min_cache) of src/server.rs, FileStoreHandle, and the eviction of
\* spec section 4.1
\* =========================================================================

\* The blobs and their sizes.
EvKeys == {"a", "b", "c"}
EvSize(k) == IF k = "a" THEN 1 ELSE 2

\* max_cache and min_cache, as main_server passes them.
EvConfigs == { [max |-> 0, min |-> 0], [max |-> 2, min |-> 1], [max |-> 3, min |-> 3] }

RECURSIVE TotalSize(_)
TotalSize(keys) ==
    IF keys = {} THEN 0
    ELSE LET k == CHOOSE x \in keys : TRUE IN EvSize(k) + TotalSize(keys \ {k})

\* A mutant of Evictable: the handles are not looked at.
EvictableUnheld(items, refs, now, k) == items[k] < now

\* A blob may be deleted when its timestamp is in the past and no handle
\* is held on it.
Evictable(items, refs, now, k) == items[k] < now /\ refs[k] = 0

\* The entry with the oldest persistence timestamp among keys; the clock
\* moves at every call, so no two entries have the same timestamp.
Oldest(items, keys) == CHOOSE k \in keys : \A j \in keys : items[k] <= items[j]

\* The walk over the entries not yet visited, oldest first, deleting the
\* evictable ones until the usage is below the floor.
RECURSIVE EvictWalk(_, _, _, _, _, _)
EvictWalk(disk, items, refs, now, floor, todo) ==
    IF todo = {} \/ TotalSize(disk) < floor
    THEN [disk |-> disk, items |-> items]
    ELSE LET k == Oldest(items, todo) IN
         IF Evictable(items, refs, now, k)
         THEN EvictWalk(disk \ {k}, [j \in DOMAIN items \ {k} |-> items[j]], refs, now,
                        floor, todo \ {k})
         ELSE EvictWalk(disk, items, refs, now, floor, todo \ {k})

\* The eviction at the tail of store and get: nothing under the cap.
Evict(disk, items, refs, now, cfg) ==
    IF TotalSize(disk) > cfg.max
    THEN EvictWalk(disk, items, refs, now, cfg.min, DOMAIN items)
    ELSE [disk |-> disk, items |-> items]

\* The entry of a key made persistent until now + PERSISTENCY_DURATION.
EvPersisted(items, k, now) ==
    [j \in DOMAIN items \cup {k} |-> IF j = k THEN now + PersistencyDuration ELSE items[j]]

EvictInit ==
    /\ ev_disk = {}
    /\ ev_items = <<>>
    /\ ev_refs = [k \in EvKeys |-> 0]
    /\ ev_now = 0
    /\ ev_last = [op |-> "none", key |-> "none", evicted |-> {}]
    /\ ev_cfg = [max |-> 0, min |-> 0]

EvCanCall == ev_now % (PersistencyDuration + 1) < MaxEvictOps

\* FileStore::new(path, max_cache, min_cache)
EvNew(cfg) ==
    /\ ev_last.op = "none"
    /\ ev_cfg' = cfg
    /\ ev_last' = [ev_last EXCEPT !.op = "new"]
    /\ UNCHANGED <<ev_disk, ev_items, ev_refs, ev_now>>

\* The tail of store and get: the eviction, and its record.
EvTail(op, k, disk, items, refs) ==
    \E r \in {Evict(disk, items, refs, ev_now, ev_cfg)} :
       /\ ev_disk' = r.disk
       /\ ev_items' = r.items
       /\ ev_refs' = refs
       /\ ev_last' = [op |-> op, key |-> k, evicted |-> disk \ r.disk]
       /\ ev_now' = ev_now + 1
       /\ UNCHANGED ev_cfg

\* store(key, bytes): the blob is on disk, persistent, and a handle on it
\* is returned.
EvStore(k) ==
    /\ ev_last.op # "none" /\ EvCanCall
    /\ ev_refs[k] < MaxRefs
    /\ EvTail("store", k, ev_disk \cup {k}, EvPersisted(ev_items, k, ev_now),
              [ev_refs EXCEPT ![k] = @ + 1])

\* get(key): a handle on a blob that is there, with its timestamp
\* refreshed; none otherwise.
EvGet(k) ==
    /\ ev_last.op # "none" /\ EvCanCall
    /\ ev_refs[k] < MaxRefs
    /\ IF k \in ev_disk
       THEN EvTail("get", k, ev_disk, EvPersisted(ev_items, k, ev_now),
                   [ev_refs EXCEPT ![k] = @ + 1])
       ELSE EvTail("get", k, ev_disk, ev_items, ev_refs)

\* persist(key)
EvPersist(k) ==
    /\ ev_last.op # "none" /\ EvCanCall
    /\ k \in ev_disk
    /\ ev_items' = EvPersisted(ev_items, k, ev_now)
    /\ ev_last' = [op |-> "persist", key |-> k, evicted |-> {}]
    /\ ev_now' = ev_now + 1
    /\ UNCHANGED <<ev_disk, ev_refs, ev_cfg>>

\* A FileStoreHandle is dropped.
EvDropHandle(k) ==
    /\ ev_refs[k] > 0
    /\ ev_refs' = [ev_refs EXCEPT ![k] = @ - 1]
    /\ ev_last' = [op |-> "drop", key |-> k, evicted |-> {}]
    /\ UNCHANGED <<ev_disk, ev_items, ev_now, ev_cfg>>

\* Time passes: more than PERSISTENCY_DURATION seconds, so that every
\* timestamp set before is in the past.
EvTick ==
    /\ ev_last.op # "none"
    /\ ev_now \div (PersistencyDuration + 1) < MaxTicks
    /\ ev_now' = (ev_now \div (PersistencyDuration + 1) + 1) * (PersistencyDuration + 1)
    /\ ev_last' = [op |-> "tick", key |-> "none", evicted |-> {}]
    /\ UNCHANGED <<ev_disk, ev_items, ev_refs, ev_cfg>>

EvictFrame ==
    UNCHANGED <<cacheVars, clientVars, workerVars, schedVars, diskVars, storeVars, writeVars,
                funVars>>

EvictNext ==
    \/ \E cfg \in EvConfigs : EvNew(cfg) /\ EvictFrame
    \/ \E k \in EvKeys : EvStore(k) /\ EvictFrame
    \/ \E k \in EvKeys : EvGet(k) /\ EvictFrame
    \/ \E k \in EvKeys : EvPersist(k) /\ EvictFrame
    \/ \E k \in EvKeys : EvDropHandle(k) /\ EvictFrame
    \/ EvTick /\ EvictFrame

\* --------------------------------------------------- claims on eviction

\* A handle is held on the blob, or its persistence timestamp is in the
\* future.
Protected(k) ==
    \/ ev_refs[k] > 0
    \/ k \in DOMAIN ev_items /\ ev_items[k] > ev_now

NoDest == [exists |-> FALSE, bytes |-> <<>>, mode |-> "none"]
DestFile(bytes, mode) == [exists |-> TRUE, bytes |-> bytes, mode |-> mode]
DestStates == {NoDest, DestFile(<<7>>, "0644"), DestFile(<<7>>, "0755")}

\* The FileCallbacks of a file: none, or write_to (with allow_failure and
\* executable) and get_content (with its limit; 0 when there is none).
NoCallback ==
    [present |-> FALSE, write_to |-> FALSE, allow_failure |-> FALSE, executable |-> FALSE,
     get_content |-> FALSE, limit |-> 0]
CallbackSet ==
    {NoCallback} \cup
    {cb \in [present : {TRUE}, write_to : BOOLEAN, allow_failure : BOOLEAN,
             executable : BOOLEAN, get_content : BOOLEAN, limit : 0..MaxLimit] :
        /\ cb.write_to \/ cb.get_content
        /\ ~cb.write_to => (~cb.allow_failure /\ ~cb.executable)
        /\ ~cb.get_content => cb.limit = 0}

\* The chunks the iterator gives: the streams <<>>, <<1>>, <<1, 2>> and
\* <<1, 2, 3>> in the ways they are split, empty chunks included.
ChunkLists ==
    { <<>>, << <<1>> >>, << <<1>>, <<2>> >>, << <<1, 2>> >>, << <<>>, <<1, 2>> >>,
      << <<1, 2, 3>> >>, << <<1>>, <<2, 3>> >>, << <<1, 2>>, <<>>, <<3>> >>,
      << <<1>>, <<2>>, <<3>> >> }

\* A mutant of Buffer: each chunk is cut to the limit, whatever the buffer
\* already holds.
RECURSIVE BufferPerChunk(_, _, _)
BufferPerChunk(chunks, limit, buffer) ==
    IF chunks = <<>> THEN buffer
    ELSE LET len == IF Len(Head(chunks)) < limit THEN Len(Head(chunks)) ELSE limit
         IN BufferPerChunk(Tail(chunks), limit, buffer \o SubSeq(Head(chunks), 1, len))

\* The buffer after the loop over the chunks: while it is shorter than the
\* limit, it takes from a chunk what the limit leaves room for.
RECURSIVE Buffer(_, _, _)
Buffer(chunks, limit, buffer) ==
    IF chunks = <<>> THEN buffer
    ELSE LET room == limit - Len(buffer)
             len == IF Len(Head(chunks)) < room THEN Len(Head(chunks)) ELSE room
         IN Buffer(Tail(chunks), limit,
                   IF Len(buffer) < limit THEN buffer \o SubSeq(Head(chunks), 1, len)
                   ELSE buffer)

\* Whether process_provided_file opens the destination for writing.
OpensDest(cb, success, hint) ==
    cb.present /\ cb.write_to /\ (success \/ cb.allow_failure) /\ ~hint

\* What process_provided_file does to the destination, what it consumes of
\* the iterator and what it returns. hint: the source path hint is the
\* destination itself; io: "ok", or the call that fails.
ProcessDest(dest, cb, success, chunks, hint, io) ==
    LET created == DestFile(<<>>, IF dest.exists THEN dest.mode ELSE "0644")
        written == DestFile(Flatten(chunks), created.mode)
        left == IF ~OpensDest(cb, success, hint) THEN dest
                ELSE IF io = "write" THEN created ELSE written
        chmod == IF cb.present /\ cb.write_to /\ cb.executable /\ left.exists
                 THEN [left EXCEPT !.mode = "0755"] ELSE left
    IN  IF ~cb.present
        THEN [dest |-> dest, consumed |-> Len(chunks), ret |-> "ok"]
        ELSE IF OpensDest(cb, success, hint) /\ io = "create"
        THEN [dest |-> dest, consumed |-> 0, ret |-> "err"]
        ELSE IF OpensDest(cb, success, hint) /\ io = "write" /\ chunks # <<>>
        THEN [dest |-> created, consumed |-> 1, ret |-> "err"]
        ELSE IF cb.write_to /\ cb.executable /\ left.exists /\ io = "chmod"
        THEN [dest |-> left, consumed |-> Len(chunks), ret |-> "err"]
        ELSE IF cb.get_content /\ io = "callback"
        THEN [dest |-> chmod, consumed |-> Len(chunks), ret |-> "err"]
        ELSE [dest |-> chmod, consumed |-> Len(chunks), ret |-> "ok"]

\* The call returns the error of creating, writing or changing the mode of
\* the destination.
FailsOnDest(dest, cb, success, chunks, hint, io) ==
    /\ cb.present /\ cb.write_to
    /\ \/ OpensDest(cb, success, hint) /\ io = "create"
       \/ OpensDest(cb, success, hint) /\ io = "write" /\ chunks # <<>>
       \/ /\ io = "chmod" /\ cb.executable
          /\ (dest.exists \/ OpensDest(cb, success, hint))

\* process_provided_file with its get_content callback: calls is the number
\* of times the function was invoked, buffer what it was given and at the
\* number of chunks consumed when it was invoked. A call that returns the
\* error of the destination does not reach the callback.
ProcessProvidedFile(dest, cb, success, chunks, hint, io) ==
    LET r == ProcessDest(dest, cb, success, chunks, hint, io)
        reached == cb.present /\ cb.get_content
                   /\ ~FailsOnDest(dest, cb, success, chunks, hint, io)
    IN  [dest |-> r.dest, consumed |-> r.consumed, ret |-> r.ret,
         calls |-> IF reached THEN 1 ELSE 0,
         buffer |-> IF reached THEN Buffer(chunks, cb.limit, <<>>) ELSE <<>>,
         at |-> IF reached THEN r.consumed ELSE 0]

NoWrite ==
    [cb |-> NoCallback, success |-> TRUE, chunks |-> <<>>, hint |-> FALSE, io |-> "ok"]

NoReturn ==
    [ret |-> "none", consumed |-> 0, before |-> NoDest, calls |-> 0, buffer |-> <<>>,
     at |-> 0]

WriteRest ==
    /\ wr_dest = NoDest
    /\ wr_call = NoWrite
    /\ wr_ret = NoReturn

WriteInit ==
    /\ wr_dest \in DestStates
    /\ wr_call = NoWrite
    /\ wr_ret = NoReturn

\* The call of process_provided_file on the destination as it is.
WrCall(cb, success, chunks, hint, io) ==
    /\ wr_ret = NoReturn
    /\ hint => wr_dest.exists
    /\ \E r \in {ProcessProvidedFile(wr_dest, cb, success, chunks, hint, io)} :
          /\ wr_dest' = r.dest
          /\ wr_ret' = [ret |-> r.ret, consumed |-> r.consumed, before |-> wr_dest,
                        calls |-> r.calls, buffer |-> r.buffer, at |-> r.at]
    /\ wr_call' = [cb |-> cb, success |-> success, chunks |-> chunks, hint |-> hint,
                   io |-> io]

WriteFrame ==
    UNCHANGED <<cacheVars, clientVars, workerVars, schedVars, diskVars, storeVars, evictVars,
                funVars>>

WriteNext ==
    \E cb \in CallbackSet : \E success \in BOOLEAN : \E chunks \in ChunkLists :
       \E hint \in BOOLEAN : \E io \in {"ok", "create", "write", "chmod", "callback"} :
          WrCall(cb, success, chunks, hint, io) /\ WriteFrame

\* ------------------------------------- claims on process_provided_file

\* The last call delivered a failed file to a write_to callback that does
\* not allow failure.
SuppressedCall ==
    /\ wr_ret.ret # "none"
    /\ wr_call.cb.present /\ wr_call.cb.write_to
    /\ ~wr_call.success /\ ~wr_call.cb.allow_failure

\* C28, as stated: such a call leaves the destination as it was (not
\* created, not truncated, not written, its permissions unchanged) and
\* consumes every chunk.
C28_WriteSuppressed ==
    SuppressedCall =>
        (wr_dest = wr_ret.before /\ wr_ret.consumed = Len(wr_call.chunks))

\* What holds of such a call: the bytes and the existence of the
\* destination are as they were, and every chunk is consumed.
C28_BytesKept ==
    SuppressedCall =>
        /\ wr_dest.exists = wr_ret.before.exists
        /\ wr_dest.bytes = wr_ret.before.bytes
        /\ wr_ret.consumed = Len(wr_call.chunks)

\* The failing case of C28: the mode of an existing destination changed.
C28_ModeChanged ==
    /\ SuppressedCall
    /\ wr_call.cb.executable
    /\ wr_ret.before.exists
    /\ wr_dest.mode # wr_ret.before.mode

\* The last call was for a file with a GetContentCallback.
GetContentCall == wr_ret.ret # "none" /\ wr_call.cb.present /\ wr_call.cb.get_content

\* The first n bytes of the stream, or all of it when it is shorter.
FirstBytes(chunks, n) ==
    SubSeq(Flatten(chunks), 1, IF n < Len(Flatten(chunks)) THEN n ELSE Len(Flatten(chunks)))

\* The function was invoked once, after the last chunk, with the first
\* min(limit, length) bytes of the stream.
InvokedOnce ==
    /\ wr_ret.calls = 1
    /\ wr_ret.at = Len(wr_call.chunks) /\ wr_ret.consumed = Len(wr_call.chunks)
    /\ wr_ret.buffer = FirstBytes(wr_call.chunks, wr_call.cb.limit)
    /\ Len(wr_ret.buffer) <= wr_call.cb.limit

\* The last call returned the error of the destination of a write_to
\* callback of the same file.
DestFailed ==
    FailsOnDest(wr_ret.before, wr_call.cb, wr_call.success, wr_call.chunks, wr_call.hint,
                wr_call.io)

\* C32, as stated: for a file with a GetContentCallback of limit n the
\* function is invoked exactly once, after the whole stream was consumed,
\* with the first min(n, length) bytes of the stream, however the stream is
\* split into chunks.
C32_ContentAsStated == GetContentCall => InvokedOnce

\* C32: the same, unless creating, writing or changing the mode of the
\* destination of a write_to callback of the same file fails: the function
\* is then not invoked and the call returns the error.
C32_Content ==
    GetContentCall =>
       IF DestFailed THEN wr_ret.calls = 0 /\ wr_ret.ret = "err" ELSE InvokedOnce

\* A stream of three bytes in two chunks, cut by a limit of two bytes that
\* falls inside the second chunk.
C32_Witness ==
    /\ GetContentCall /\ ~DestFailed
    /\ wr_call.chunks = << <<1>>, <<2, 3>> >>
    /\ wr_call.cb.limit = 2
    /\ wr_ret.buffer = <<1, 2>>

\* =========================================================================
\* The ready queue on its own (spec section 4.4)
\* =========================================================================

NoTake == [e |-> "none", from |-> <<>>, stamp |-> <<>>]

QueueInit ==
    /\ rq_queue = <<>>
    /\ rq_stamp = [e \in Execs |-> 0]
    /\ rq_clock = 0
    /\ rq_taken = NoTake

\* The groups of S, none of them in the queue, become ready together.
RqPush(S) ==
    /\ S # {} /\ S \cap SeqRange(rq_queue) = {}
    /\ rq_clock < MaxArrivals
    /\ rq_queue' = PushAll(rq_queue, SeqOf(S))
    /\ rq_clock' = rq_clock + 1
    /\ rq_stamp' = [e \in Execs |-> IF e \in S THEN rq_clock + 1 ELSE rq_stamp[e]]
    /\ UNCHANGED rq_taken

\* The scheduler takes a group from the ready queue.
RqTake ==
    /\ rq_queue # <<>>
    /\ rq_taken' = [e |-> Head(rq_queue), from |-> rq_queue, stamp |-> rq_stamp]
    /\ rq_queue' = PopReady(rq_queue)
    /\ UNCHANGED <<rq_stamp, rq_clock>>

QueueFrame ==
    UNCHANGED <<cacheVars, clientVars, workerVars, schedVars, diskVars, storeVars, evictVars,
                writeVars, captureVars, limitVars>>

QueueNext ==
    \/ \E S \in SUBSET Execs : RqPush(S) /\ QueueFrame
    \/ RqTake /\ QueueFrame

\* --------------------------------------------- claims on the ready queue

\* C31: the group taken from the ready queue has the highest priority of
\* the groups that were ready, and among those of its priority none became
\* ready before it.
C31_PriorityFifo ==
    rq_taken.e # "none" =>
       \A i \in 1..Len(rq_taken.from) :
          LET f == rq_taken.from[i]
          IN /\ Priority(rq_taken.e) >= Priority(f)
             /\ Priority(rq_taken.e) = Priority(f) =>
                   rq_taken.stamp[rq_taken.e] <= rq_taken.stamp[f]

\* A group was taken ahead of a group of its priority that became ready
\* after it.
C31_Witness ==
    /\ rq_taken.e # "none"
    /\ \E i \in 1..Len(rq_taken.from) :
          /\ Priority(rq_taken.from[i]) = Priority(rq_taken.e)
          /\ rq_taken.stamp[rq_taken.from[i]] > rq_taken.stamp[rq_taken.e]

\* The group of priority 1 was taken ahead of a group of priority 0 that
\* became ready before it.
C31_PriorityWitness ==
    /\ rq_taken.e = "D"
    /\ \E i \in 1..Len(rq_taken.from) :
          /\ Priority(rq_taken.from[i]) < Priority(rq_taken.e)
          /\ rq_taken.stamp[rq_taken.from[i]] < rq_taken.stamp[rq_taken.e]

\* =========================================================================
\* capture_stream (task-maker-exec/src/worker.rs)
\* =========================================================================

\* let mut buffer = vec![0; 1024]
BufferSize == 1024

\* A file of len bytes, each byte telling its place.
FileBytes(len) == [i \in 1..len |-> i % 256]

FileLens == {0, 1, 3, 1023, 1024, 1025, MaxFileLen}
Counts == {NoCount, 0, 1, 2, 1024, 1025, 2048}

\* What file.read(&mut buffer) may return with left bytes to the end of the
\* file: 0 at the end of the file, else as much as the buffer takes, or a
\* short read of half a buffer.
ReadSizes(left) ==
    IF left = 0 THEN {0}
    ELSE {IF left < BufferSize THEN left ELSE BufferSize}
         \cup (IF left > BufferSize \div 2 THEN {BufferSize \div 2} ELSE {})

NoCapture == [ret |-> "none", opened |-> FALSE]

CaptureInit ==
    /\ cs_pc = "idle"
    /\ cs_file \in {[exists |-> FALSE, bytes |-> <<>>]}
                    \cup {[exists |-> TRUE, bytes |-> FileBytes(n)] : n \in FileLens}
    /\ cs_count = NoCount
    /\ cs_read = 0
    /\ cs_result = <<>>
    /\ cs_ret = NoCapture

CaptureRest == CaptureInit /\ ~cs_file.exists

\* capture_stream(path, count) is called: None returns None at once, a
\* file that cannot be opened returns the error, else the loop begins.
CsCall(count) ==
    /\ cs_pc = "idle"
    /\ cs_count' = count
    /\ IF count = NoCount
       THEN cs_pc' = "done" /\ cs_ret' = [ret |-> "None", opened |-> FALSE]
       ELSE IF ~cs_file.exists
       THEN cs_pc' = "done" /\ cs_ret' = [ret |-> "err", opened |-> FALSE]
       ELSE cs_pc' = "loop" /\ cs_ret' = [ret |-> "none", opened |-> TRUE]
    /\ UNCHANGED <<cs_file, cs_read, cs_result>>

\* One turn of while read < count: a read of n bytes; 0 is the end of the
\* file, else the n bytes are appended to result and counted.
CsRead(n) ==
    /\ cs_pc = "loop" /\ cs_read < cs_count
    /\ n \in ReadSizes(Len(cs_file.bytes) - cs_read)
    /\ IF n = 0
       THEN /\ cs_pc' = "done" /\ cs_ret' = [cs_ret EXCEPT !.ret = "Some"]
            /\ UNCHANGED <<cs_read, cs_result>>
       ELSE /\ cs_result' = cs_result \o SubSeq(cs_file.bytes, cs_read + 1, cs_read + n)
            /\ cs_read' = cs_read + n
            /\ UNCHANGED <<cs_pc, cs_ret>>
    /\ UNCHANGED <<cs_file, cs_count>>

\* The loop ends with read >= count: Ok(Some(result)).
CsReturn ==
    /\ cs_pc = "loop" /\ ~(cs_read < cs_count)
    /\ cs_pc' = "done" /\ cs_ret' = [cs_ret EXCEPT !.ret = "Some"]
    /\ UNCHANGED <<cs_file, cs_count, cs_read, cs_result>>

CaptureFrame ==
    UNCHANGED <<cacheVars, clientVars, workerVars, schedVars, diskVars, storeVars, evictVars,
                writeVars, queueVars, limitVars>>

CaptureNext ==
    \/ \E count \in Counts : CsCall(count) /\ CaptureFrame
    \/ \E n \in {0, BufferSize \div 2} \cup 1..BufferSize : CsRead(n) /\ CaptureFrame
    \/ CsReturn /\ CaptureFrame

\* -------------------------------------------- claims on capture_stream

\* The first n bytes of the file, or all of it when it is shorter.
FirstOfFile(n) ==
    SubSeq(cs_file.bytes, 1, IF n < Len(cs_file.bytes) THEN n ELSE Len(cs_file.bytes))

\* C36, as stated: capture_stream(path, Some(count)) returns at most count
\* bytes, the first min(count, file length) bytes of the file, and
\* capture_stream(path, None) reads nothing and returns None.
C36_AtMostCount ==
    (cs_pc = "done" /\ cs_ret.ret # "err") =>
       IF cs_count = NoCount
       THEN cs_ret = [ret |-> "None", opened |-> FALSE] /\ cs_result = <<>>
       ELSE /\ cs_ret.ret = "Some"
            /\ Len(cs_result) <= cs_count
            /\ cs_result = FirstOfFile(cs_count)

\* What the call returns: the first bytes of the file, at least the first
\* min(count, file length) of them and fewer than count and a buffer more.
C36_WholeReads ==
    (cs_pc = "done" /\ cs_ret.ret = "Some") =>
       /\ cs_result = FirstOfFile(Len(cs_result))
       /\ Len(cs_result) >= Len(FirstOfFile(cs_count))
       /\ Len(cs_result) < cs_count + BufferSize

\* The failing case of C36: more than count bytes are returned.
C36_Overrun ==
    /\ cs_pc = "done" /\ cs_ret.ret = "Some"
    /\ cs_count = 1 /\ Len(cs_file.bytes) = 3
    /\ cs_result = <<1, 2, 3>>

\* =========================================================================
\* "Less restrictive" on its own: the relation of the crate documentation
\* of task-maker-cache, applied to every pair of three limits
\* =========================================================================

\* The largest value of a limit.
MaxLimitValue == 2

\* Every limits record: each dimension absent or 1..MaxLimitValue.
AllLimits == [Dims -> {NoLimit} \cup (1..MaxLimitValue)]

NoVerdict == << >>

LimitInit ==
    /\ lr_in \in [1..3 -> AllLimits]
    /\ lr_out = NoVerdict

LimitRest ==
    /\ lr_in = [i \in 1..3 |-> Unlimited]
    /\ lr_out = NoVerdict

\* Every Li is compared with every Lj.
LrCompare ==
    /\ lr_out = NoVerdict
    /\ lr_out' = [p \in (1..3) \X (1..3) |-> LessRestrictive(lr_in[p[1]], lr_in[p[2]])]
    /\ UNCHANGED lr_in

LimitFrame ==
    UNCHANGED <<cacheVars, clientVars, workerVars, schedVars, diskVars, storeVars, evictVars,
                writeVars, queueVars, captureVars>>

LimitNext == LrCompare /\ LimitFrame

\* The value of a limit, with a number above every value for an absent one.
Infinite == MaxLimitValue + 1
ValueOf(x) == IF x = NoLimit THEN Infinite ELSE x

Compared == lr_out # NoVerdict

FunRest == QueueInit /\ CaptureRest /\ LimitRest

\* ------------------------------------------------------- specifications

\* The cache on its own leaves the session alone.
CacheFrame == UNCHANGED <<clientVars, workerVars, schedVars, diskVars, storeVars, evictVars, writeVars, funVars>>

CacheNext ==
    \/ \E g \in CacheGroups : \E r \in GroupRuns(g) :
          CacheDoInsert(g, r.fk, r.results) /\ CacheFrame
    \/ \E g \in CacheGroups : \E fk \in InputMaps(g) : CacheDoGet(g, fk) /\ CacheFrame
    \/ \E k \in OutputKeys : FsEvict(k) /\ CacheFrame
    \/ \E k \in OutputKeys : FsStore(k) /\ CacheFrame

CacheSpecInit ==
    EvictInit /\ WriteRest /\ FunRest /\ CacheInit /\ ClientInit /\ WorkerRest /\ SchedInit /\ DiskRest /\ StoreInit
CacheSpec == CacheSpecInit /\ [][CacheNext]_vars

ClientSpecInit ==
    EvictInit /\ WriteRest /\ FunRest /\ ClientInit /\ CacheInit /\ WorkerRest /\ SchedInit /\ DiskRest /\ StoreInit
ClientSpec == ClientSpecInit /\ [][ClientNext]_vars

\* The threads of the client are scheduled: the poller takes its next step,
\* the deferred block runs and the join returns once the poller has ended;
\* the main thread that waits for file_mode gets it, since the poller sleeps
\* between two polls.
ClientFairness ==
    /\ WF_vars((PollerCheck \/ PollerLock \/ PollerSend \/ PollerWake) /\ ClientFrame)
    /\ WF_vars((ClientDefer \/ ClientJoin) /\ ClientFrame)
    /\ SF_vars(ClientLock /\ ClientFrame)

\* The session with one provided file asked for and two results of Done:
\* every way out of evaluate is there.
ClientFairNext ==
    \/ \E fail \in BOOLEAN : ClientStart(fail) /\ ClientFrame
    \/ ClientLoopEnd /\ ClientFrame
    \/ ClientRecvAskFile("p1") /\ ClientFrame
    \/ ClientLock /\ ClientFrame
    \/ ClientSendHeader /\ ClientFrame
    \/ ClientSendFrame /\ ClientFrame
    \/ \E fail \in BOOLEAN : ClientRecvProvideFile(fail) /\ ClientFrame
    \/ ClientRecvError /\ ClientFrame
    \/ \E r \in {<<>>, << DoneEntry("w1", "km", TRUE), DoneEntry("w2", "kl", TRUE) >>} :
          \E fail \in 0..Len(r) : ClientRecvDone(r, fail) /\ ClientFrame
    \/ ClientRecvClosed /\ ClientFrame
    \/ ClientDefer /\ ClientFrame
    \/ ClientJoin /\ ClientFrame
    \/ PollerCheck /\ ClientFrame
    \/ PollerLock /\ ClientFrame
    \/ PollerSend /\ ClientFrame
    \/ PollerWake /\ ClientFrame
    \/ ServerGone /\ ClientFrame

ClientFairSpec == ClientSpecInit /\ [][ClientFairNext]_vars /\ ClientFairness

WorkerSpecInit ==
    EvictInit /\ WriteRest /\ FunRest /\ WorkerInit /\ CacheInit /\ ClientInit /\ SchedInit /\ DiskRest /\ StoreInit
WorkerSpec == WorkerSpecInit /\ [][WorkerNext]_vars

SchedSpecInit ==
    /\ SchedInit /\ ClientInit /\ WorkerRest /\ DiskRest /\ StoreInit
    /\ EvictInit /\ WriteRest /\ FunRest
    /\ \E start \in SchedStarts : cache_entries = start.cache /\ fs_keys = start.fs
    /\ cache_last = NoCall
    /\ cache_inserts = 0
ServerCacheSpecInit ==
    CacheInit /\ DiskInit /\ ClientInit /\ WorkerRest /\ SchedInit /\ StoreInit
    /\ EvictInit /\ WriteRest /\ FunRest
ServerCacheSpec == ServerCacheSpecInit /\ [][ServerCacheNext]_vars

StoreSpecInit ==
    StoreInit /\ CacheInit /\ DiskRest /\ ClientInit /\ WorkerRest /\ SchedInit
    /\ EvictInit /\ WriteRest /\ FunRest
StoreSpec == StoreSpecInit /\ [][StoreNext]_vars

\* The kernel hands a released lock to a process that waits for it, and a
\* process that holds the lock goes on to read store_info.
StoreFairness ==
    \A p \in Procs :
       /\ SF_vars(StNewWait(p) /\ StoreFrame)
       /\ WF_vars(StNewRead(p) /\ StoreFrame)
StoreFairSpec == StoreSpecInit /\ [][StoreFairNext]_vars /\ StoreFairness

EvictSpecInit ==
    EvictInit /\ WriteRest /\ FunRest /\ StoreInit /\ CacheInit /\ DiskRest /\ ClientInit /\ WorkerRest
    /\ SchedInit
EvictSpec == EvictSpecInit /\ [][EvictNext]_vars

WriteSpecInit ==
    WriteInit /\ FunRest /\ EvictInit /\ StoreInit /\ CacheInit /\ DiskRest /\ ClientInit /\ WorkerRest
    /\ SchedInit
WriteSpec == WriteSpecInit /\ [][WriteNext]_vars

QueueSpecInit ==
    QueueInit /\ CaptureRest /\ LimitRest /\ WriteRest /\ EvictInit /\ StoreInit /\ CacheInit /\ DiskRest /\ ClientInit
    /\ WorkerRest /\ SchedInit
QueueSpec == QueueSpecInit /\ [][QueueNext]_vars

CaptureSpecInit ==
    CaptureInit /\ QueueInit /\ LimitRest /\ WriteRest /\ EvictInit /\ StoreInit /\ CacheInit /\ DiskRest
    /\ ClientInit /\ WorkerRest /\ SchedInit
CaptureSpec == CaptureSpecInit /\ [][CaptureNext]_vars

LimitSpecInit ==
    LimitInit /\ CaptureRest /\ QueueInit /\ WriteRest /\ EvictInit /\ StoreInit /\ CacheInit
    /\ DiskRest /\ ClientInit /\ WorkerRest /\ SchedInit
LimitSpec == LimitSpecInit /\ [][LimitNext]_vars

\* A sandbox ends on its own unless an execution of its group has ended
\* without success (the executions of a group talk through FIFOs, and one
\* may wait for another for ever); a killed sandbox ends.
SandboxEnds(i) ==
    /\ i \in 1..Len(wk_sandboxes)
    /\ \/ wk_sandboxes[i].killed
       \/ \A j \in 1..Len(wk_mgr.results) :
             wk_mgr.results[j] = NoResult \/ wk_mgr.results[j].status.kind = "Success"
    /\ \E o \in {RunCheap, RunExit1, RunFailed, RunSignal} : SandboxReport(i, o)
    /\ WorkerFrame

\* The threads of the worker are scheduled: the group manager takes its
\* next step, the main thread handles what recv() gives it and returns from
\* a join that does not wait, and a sandbox that can end does.
WorkerFairness ==
    /\ \A i \in 1..2 : WF_vars(SandboxEnds(i))
    /\ WF_vars(ManagerSendDone /\ WorkerFrame)
    /\ WF_vars((\E u \in {"o1", "o2", "o3"} : ManagerUpload(u)) /\ WorkerFrame)
    /\ WF_vars(ManagerReset /\ WorkerFrame)
    /\ WF_vars((WorkerStart \/ WorkerRecvWork \/ WorkerRecvProvideFile \/ WorkerRecvKillJob
                 \/ WorkerRecvClosed \/ WorkerJoin) /\ WorkerFrame)

\* The worker with a server that sends no Exit, from a store that is empty
\* or holds every key.
WorkerFairNext ==
    \/ WorkerStart /\ WorkerFrame
    \/ WorkerRecvWork /\ WorkerFrame
    \/ WorkerRecvProvideFile /\ WorkerFrame
    \/ WorkerRecvKillJob /\ WorkerFrame
    \/ WorkerRecvClosed /\ WorkerFrame
    \/ WorkerJoin /\ WorkerFrame
    \/ \E i \in 1..2 : \E o \in {RunCheap, RunExit1, RunFailed, RunSignal} : SandboxReport(i, o) /\ WorkerFrame
    \/ ManagerSendDone /\ WorkerFrame
    \/ \E u \in {"o1", "o2", "o3"} : ManagerUpload(u) /\ WorkerFrame
    \/ ManagerReset /\ WorkerFrame
    \/ \E job \in WorkerJobs : WServerSendWork(job) /\ WorkerFrame
    \/ WServerProvideFile /\ WorkerFrame
    \/ \E job \in WorkerJobs : WServerKillJob(job.uuid) /\ WorkerFrame
    \/ WServerGone /\ WorkerFrame

WorkerFairInit == WorkerSpecInit /\ wk_store \in {{}, WorkerKeys}
WorkerFairSpec == WorkerFairInit /\ [][WorkerFairNext]_vars /\ WorkerFairness

SchedSpec == SchedSpecInit /\ [][SchedNext]_vars

\* The session with a client whose callbacks do not fail and a worker w1
\* that stays connected. The scheduler's loop handles every event it is
\* given, a sandbox ends (section 5: the sandbox is responsible for bounded
\* termination), and the client's loop receives what is sent to it.
SchedFairNext ==
    \/ SchTick /\ SchFrame
    \/ \E o \in SchedOutcomes : SchWorkerDone("w1", o) /\ SchFrame
    \/ \E o \in SchedOutcomes : SchWorkerDone("w2", o) /\ SchFrame
    \/ SchWorkerGone("w2") /\ SchFrame
    \/ SchHandleEvaluate /\ SchFrame
    \/ SchHandleProvideFile /\ SchFrame
    \/ SchHandleAskFile /\ SchFrame
    \/ SessionStart /\ SessionOnly /\ SessionFrame
    \/ SessionRecv /\ SessionOnly /\ SessionFrame
    \/ SessionEnd /\ SessionOnly /\ SessionFrame

\* Every step of the fair session but the disconnection of w2.
SchedProgress ==
    \/ SchTick /\ SchFrame
    \/ \E o \in SchedOutcomes : SchWorkerDone("w1", o) /\ SchFrame
    \/ \E o \in SchedOutcomes : SchWorkerDone("w2", o) /\ SchFrame
    \/ SchHandleEvaluate /\ SchFrame
    \/ SchHandleProvideFile /\ SchFrame
    \/ SchHandleAskFile /\ SchFrame
    \/ SessionStart /\ SessionOnly /\ SessionFrame
    \/ SessionRecv /\ SessionOnly /\ SessionFrame
    \/ SessionEnd /\ SessionOnly /\ SessionFrame

\* The weakest fairness the threads give: while some step of the scheduler,
\* of a worker or of the client can be taken, one of them is.
SchedFairness == WF_vars(SchedProgress)

SchedFairSpec == SchedSpecInit /\ [][SchedFairNext]_vars /\ SchedFairness

\* ----------------------------------------- claims on the server's cache

AllOutcomes == {RunCheap, RunHeavy, RunExit1, RunSignal, RunFailed}

\* The results held by the entries of the cache.
CachedResults ==
    UNION {UNION {{cache_entries[k][i].items[x].result : x \in 1..Len(cache_entries[k][i].items)} :
                    i \in 1..Len(cache_entries[k])} :
            k \in DOMAIN cache_entries}

InternalError(result) == result.status.kind = "InternalError"

\* The executor has just handled a WorkerDone in which a sandbox Failed.
FailedReport ==
    /\ cache_last.op = "done"
    /\ \E x \in 1..Len(cache_last.ins) : InternalError(cache_last.ins[x])

\* C15: a result is cacheable exactly when its status is not InternalError,
\* which is what a sandbox that Failed is reported as; the cache holds no
\* result with InternalError, a group with such a result is not in the cache
\* after its WorkerDone, and no Hit is served from one.
C15_OnlyCacheable ==
    /\ \A L \in LimitSet : \A o \in AllOutcomes :
          /\ InternalError(ComputeExecutionResult(L, o)) <=> o.failed
          /\ IsCacheable(ComputeExecutionResult(L, o)) <=> ~o.failed
    /\ \A r \in CachedResults : IsCacheable(r) /\ ~InternalError(r)
    /\ FailedReport =>
          \A i \in 1..Len(LastSet) :
              LastSet[i] # EntryFromGroup(cache_last.group, cache_last.fk, cache_last.ins)
    /\ IsHit => \A x \in 1..Len(Served.items) : ~InternalError(Served.items[x].result)

\* C15's case: a group of two executions, one sandbox Failed and the other
\* succeeded, was reported while the cache holds entries; a later lookup of
\* the group is a Miss.
C15_Witness ==
    /\ FailedReport
    /\ \E x \in 1..Len(cache_last.ins) : cache_last.ins[x].status.kind = "Success"
    /\ cache_entries # <<>>
    /\ LastSet = <<>>

InsideTransfer(j) ==
    \E i \in 1..(j - 1) :
        /\ c2s[i].t = "ProvideFile"
        /\ \A k \in (i + 1)..(j - 1) : c2s[k].t # "End"

\* C1: on the client-to-server channel no Status message lies between a
\* ProvideFile header and the end-of-file frame of that transfer.
C1_NoStatusInsideTransfer ==
    \A j \in 1..Len(c2s) : c2s[j].t = "Status" => ~InsideTransfer(j)

\* C1's case: the poller is waiting for the mutex while the main loop is in
\* the middle of a transfer, a chunk already sent and more to come.
C1_Witness ==
    /\ po_pc = "lock"
    /\ file_mode = "main"
    /\ cl_pc = "chunks"
    /\ Len(c2s) > 0 /\ c2s[Len(c2s)].t = "Data"
    /\ cl_file.left > 0

\* The positions of the Evaluate messages on the channel.
EvaluateAt == {i \in 1..Len(c2s) : c2s[i].t = "Evaluate"}

\* C25: Evaluate is the first message the client sends and it is sent once:
\* no Status, ProvideFile, AskFile or Stop precedes it; a session whose
\* start_evaluation fails sends nothing.
C25_EvaluateFirst ==
    /\ c2s # <<>> => EvaluateAt = {1}
    /\ cl_pc = "start" => c2s = <<>>
    /\ (cl_pc # "start" /\ c2s = <<>>) => (cl_pc = "returned" /\ cl_ret = "err")
    /\ po_pc # "unborn" => c2s # <<>>

\* The client has sent Evaluate, then a Status, a file and an AskFile.
C25_Witness ==
    /\ Len(c2s) > 3
    /\ c2s[1].t = "Evaluate"
    /\ \E i, j, k \in 2..Len(c2s) :
          c2s[i].t = "Status" /\ c2s[j].t = "ProvideFile" /\ c2s[k].t = "AskFile"

\* The AskFile messages sent so far, and the entries of the Done list whose
\* key is not in the client's store.
AsksSent == SelectSeq(c2s, LAMBDA m : m.t = "AskFile")
MissingIdx == {i \in 1..Len(srv.result) : srv.result[i].key \notin ClientStore}

\* One AskFile(uuid, key, success) for each missing entry, and no other.
AsksAreTheMissing ==
    /\ Len(AsksSent) = Cardinality(MissingIdx)
    /\ \A i \in MissingIdx : \E n \in 1..Len(AsksSent) :
          /\ AsksSent[n].uuid = srv.result[i].uuid
          /\ AsksSent[n].key = srv.result[i].key
          /\ AsksSent[n].success = srv.result[i].success

C26_Counted ==
    /\ (srv.done /\ ~srv.failed) => AsksAreTheMissing
    /\ ~srv.done => (AsksSent = <<>> /\ cl_missing = NoCount)
    /\ (srv.done /\ ~srv.failed) => cl_missing = Cardinality(MissingIdx) - srv.got
    /\ srv.failed => cl_ret = "err"

\* What holds of every step: the loop is left with Ok by its own condition
\* only after Done with every missing file received, and otherwise on Error
\* or on a closed channel; once every missing file is received nothing more
\* is received.
C26_LoopEnd ==
    /\ (cl_pc = "recv" /\ cl_pc' = "defer" /\ cl_ret' = "ok") =>
          \/ srv.done /\ ~srv.failed /\ srv.got = Cardinality(MissingIdx)
          \/ ~srv.errored /\ srv'.errored
          \/ ~srv.open
    /\ (cl_pc = "recv" /\ srv.done /\ srv.got = Cardinality(MissingIdx)) =>
          /\ srv'.got = srv.got /\ srv'.errored = srv.errored
          /\ cl_pc' \in {"recv", "defer"}
          /\ cl_pc' = "defer" => cl_ret' = "ok"

C27_ErrorFails ==
    (srv.errored /\ cl_pc = "returned") => cl_ret # "ok"

\* The failing case of C27: evaluate has returned Ok(()) after Error, with
\* Stop as the last message sent by the main loop.
C27_OkAfterError ==
    /\ srv.errored /\ cl_pc = "returned" /\ cl_ret = "ok"
    /\ \E i \in 1..Len(c2s) : c2s[i].t = "Stop"
    /\ ~srv.done

\* evaluate is on its way out: the deferred block runs or has run.
Exiting == cl_pc \in {"defer", "join"}

\* C38: evaluate and its poller do not deadlock. On every way out of
\* evaluate the file_mode mutex is not held by the main thread when the
\* deferred block runs; evaluate then returns, with the poller joined; the
\* main thread that waits for the mutex gets it; and the poller ends once
\* done is set or its send fails.
C38_PollerJoined ==
    /\ []((Exiting \/ cl_pc = "returned") => file_mode # "main")
    /\ [](cl_pc = "returned" => po_pc \in {"dead", "unborn"})
    /\ Exiting ~> (cl_pc = "returned" /\ po_pc = "dead")
    /\ (cl_pc = "lock") ~> (cl_pc # "lock")
    /\ done_flag ~> (po_pc = "dead")
    /\ (po_pc = "send" /\ ~srv.open) ~> (po_pc = "dead")

\* A send failed inside a transfer, with the mutex held: the header of a
\* provided file was sent and its end-of-file frame was not; evaluate has
\* returned the error and the poller is joined.
C38_Witness ==
    /\ cl_pc = "returned" /\ cl_ret = "err" /\ po_pc = "dead" /\ ~srv.open
    /\ \E i \in 1..Len(c2s) :
          /\ c2s[i].t = "ProvideFile"
          /\ \A j \in (i + 1)..Len(c2s) : c2s[j].t # "End"
    /\ \E i \in 1..Len(c2s) : c2s[i].t = "Status"

\* -------------------------------------------------- claims on the worker

JobInputs == SeqRange(JobDeps(wk_job.execs))

\* The worker handles the message at the head of its channel.
Handles(t) ==
    /\ wk_pc = "recv" /\ s2w # <<>> /\ Head(s2w).t = t
    /\ s2w' = Tail(s2w)

\* The keys the worker asks for in this step.
NewAsks == {i \in (Len(w2s) + 1)..Len(w2s') : w2s'[i].t = "AskFile"}

\* Handling Work, the worker asks for a key at most once, only for the key
\* of an input that its store lacks; when it takes the job, it has asked for
\* every such key, and these are the missing keys.
AsksOnce ==
    Handles("Work") =>
       LET job == Head(s2w).job
           lacking == {job.dep_keys[u] : u \in SeqRange(JobDeps(job.execs)) \cap DOMAIN job.dep_keys}
                         \ wk_store
       IN /\ \A i, j \in NewAsks : w2s'[i].key = w2s'[j].key => i = j
          /\ \A i \in NewAsks : w2s'[i].key \in lacking
          /\ (wk_job = NoJob /\ wk_job' = job) =>
                /\ {w2s'[i].key : i \in NewAsks} = lacking
                /\ DOMAIN wk_missing' = lacking

\* Handling ProvideFile(key), every input of the job whose key it is gets
\* the handle, and the key is missing no more.
WaitingServed ==
    (Handles("ProvideFile") /\ wk_pc' = "recv") =>
       /\ \A u \in JobInputs :
             wk_job.dep_keys[u] = Head(s2w).key =>
                u \in DOMAIN wk_handles' /\ wk_handles'[u] = Head(s2w).key
       /\ Head(s2w).key \notin DOMAIN wk_missing'

\* The set of missing keys of the job is empty exactly when every input has
\* its handle.
MissingIffUnheld ==
    wk_job # NoJob => (DOMAIN wk_missing = {} <=> JobInputs \subseteq DOMAIN wk_handles)

\* C33: for one Work message the worker sends AskFile at most once per
\* missing key, also when several inputs share the key; when ProvideFile
\* arrives every input that waited for the key gets the handle; the missing
\* keys are empty exactly when every input has a handle.
C33_AskOnce == []MissingIffUnheld /\ [][AsksOnce /\ WaitingServed]_vars

\* The job of four inputs on two keys, from an empty store: two AskFile were
\* sent, and the ProvideFile of k1 gave the handle to both inputs that
\* waited for it, while k2 is still missing.
C33_Witness ==
    /\ wk_job # NoJob /\ wk_job.uuid = "j1"
    /\ Cardinality({i \in 1..Len(w2s) : w2s[i].t = "AskFile"}) = 2
    /\ DOMAIN wk_handles = {"a", "c"}
    /\ DOMAIN wk_missing = {"k2"}
    /\ wk_missing["k2"] = <<"b", "b">>

\* A sandbox of the current job runs.
JobRuns(g) == wk_job # NoJob /\ wk_job.uuid = g /\ wk_thread = "running"

\* The group manager of the job g runs.
GroupRunning(g) == JobRuns(g) /\ wk_sandboxes # <<>>

\* WorkerDone of the job g has been sent.
DoneOf(g) == {i \in 1..Len(w2s) : w2s[i].t = "WorkerDone" /\ w2s[i].job = g}

JobIds == {job.uuid : job \in WorkerJobs}

\* A result that is not a success kills, in the step that records it, every
\* sandbox that has not reported; a recorded result is not replaced.
KillsTheRest ==
    (wk_thread = "running" /\ wk_thread' = "running" /\ wk_job' = wk_job) =>
       \A i \in 1..Len(wk_mgr.results) :
          /\ (wk_mgr.results[i] = NoResult /\ wk_mgr'.results[i] # NoResult
                /\ wk_mgr'.results[i].status.kind # "Success")
                => \A j \in 1..Len(wk_mgr.results) :
                      wk_mgr'.results[j] = NoResult => wk_sandboxes'[j].killed
          /\ wk_mgr.results[i] # NoResult => wk_mgr'.results[i] = wk_mgr.results[i]

\* WorkerDone is sent at most once for a job, with the recorded result of
\* every execution of the group, in the order of the group.
DoneOnce ==
    \A g \in JobIds :
       /\ Cardinality(DoneOf(g)) <= 1
       /\ \A i \in DoneOf(g) :
             /\ Len(w2s[i].results) = Len((CHOOSE job \in WorkerJobs : job.uuid = g).execs)
             /\ \A k \in 1..Len(w2s[i].results) : w2s[i].results[k] # NoResult
             /\ (i = Len(w2s) /\ wk_thread = "running") => w2s[i].results = wk_mgr.results

\* C35, as stated: a result that is not a success kills every sandbox of
\* the group that has not reported, and the group whose sandboxes were
\* started completes: WorkerDone is eventually sent, once, with one result
\* per execution in group order.
C35_GroupCompletesAsStated ==
    /\ []DoneOnce /\ [][KillsTheRest]_vars
    /\ \A g \in JobIds : GroupRunning(g) ~> (DoneOf(g) # {})

\* C35: the same, for as long as the channel to the server is open; the
\* manager that cannot send WorkerDone panics and sends none.
C35_GroupCompletes ==
    /\ []DoneOnce /\ [][KillsTheRest]_vars
    /\ \A g \in JobIds : GroupRunning(g) ~> (DoneOf(g) # {} \/ ~wsrv.open)

\* In the group of two executions the first ended with a nonzero exit code,
\* the second was killed and reported the signal, and WorkerDone was sent
\* with both results.
C35_Witness ==
    \E i \in DoneOf("j1") :
       /\ w2s[i].results[1].status.kind = "ReturnCode"
       /\ w2s[i].results[2].status.kind = "Signal"

\* work() has ended: it returned Ok, returned an error, or panicked.
WorkEnded == wk_pc \in {"returned", "failed", "panicked"}

\* recv() fails on the closed channel in this step.
ClosedStep == wk_pc = "recv" /\ s2w = <<>> /\ ~wsrv.open /\ wk_pc' # "recv"

\* Every sandbox of the job, if there is any, is asked to be killed.
AllKilled == \A i \in 1..Len(wk_sandboxes) : wk_sandboxes[i].killed

\* C37: when recv() fails on the closed channel, work() kills every sandbox
\* of the running job, and it ends; it never panics, and when it has ended
\* the sandbox thread is not running any more. After the server is gone
\* work() always ends.
C37_DisconnectEnds ==
    /\ [][ClosedStep => AllKilled']_vars
    /\ [](WorkEnded => (wk_thread # "running" /\ wk_pc # "panicked"))
    /\ (~wsrv.open) ~> WorkEnded

\* The server went away while the two sandboxes of a job ran: both were
\* killed, the sandbox thread was joined and work() has ended.
C37_Witness ==
    /\ ~wsrv.open /\ WorkEnded
    /\ wk_job # NoJob /\ Len(wk_sandboxes) = 2 /\ AllKilled
    /\ wk_thread = "none"
    /\ \E i \in 1..2 : wk_mgr.results[i].status.kind = "Signal"

\* The server went away while the job waited for a dependency: work() has
\* returned Ok with nothing to kill.
C37_WaitingWitness ==
    /\ ~wsrv.open /\ wk_pc = "returned"
    /\ wk_job # NoJob /\ DOMAIN wk_missing # {} /\ wk_sandboxes = <<>>

\* The server went away while the worker had no job: work() has returned Ok.
C37_AbsentWitness ==
    /\ ~wsrv.open /\ wk_pc = "returned" /\ wk_job = NoJob

\* A GetWork of the worker is not answered yet, or its answer is in flight.
WorkExpected ==
    \/ CountOf(w2s, "GetWork") > wsrv.works
    \/ \E i \in 1..Len(s2w) : s2w[i].t = "Work"

\* The worker sends GetWork in this step.
SendsGetWork == Len(w2s') = Len(w2s) + 1 /\ w2s'[Len(w2s')].t = "GetWork"

\* C34: with a server that sends Work only in answer to GetWork, the job
\* slot is empty whenever a Work can arrive, the worker that handles Work
\* finds it empty (the assertion holds), and the slot is empty when GetWork
\* is sent, so before its answer.
C34_OneJobAtATime ==
    /\ [](WorkExpected => wk_job = NoJob)
    /\ [][Handles("Work") => (wk_job = NoJob /\ wk_pc' # "panicked")]_vars
    /\ [][SendsGetWork => wk_job' = NoJob]_vars

\* The worker has finished a job, asked for work again and taken the second
\* job.
C34_Witness ==
    /\ wsrv.works = 2 /\ CountOf(w2s, "GetWork") = 2 /\ CountOf(w2s, "WorkerDone") = 1
    /\ wk_job # NoJob
    /\ w2s[Len(w2s)].t # "GetWork"
    /\ \E i \in 1..Len(w2s) : w2s[i].t = "WorkerDone" /\ w2s[i].job # wk_job.uuid

\* C29, as stated: on the worker-to-server channel the ProvideFile of
\* every output of a group precedes the WorkerDone of the group.
C29_UploadedBeforeDone ==
    \A i \in 1..Len(w2s) :
       w2s[i].t = "WorkerDone" =>
          \A u \in w2s[i].outputs :
             \E j \in 1..(i - 1) :
                w2s[j].t = "ProvideFile" /\ w2s[j].job = w2s[i].job /\ w2s[j].uuid = u

\* What the channel shows instead: the ProvideFile of an output of a group
\* comes after the WorkerDone of the group, and none comes before it.
C29_UploadedAfterDone ==
    \E i, j \in 1..Len(w2s) :
       /\ w2s[i].t = "WorkerDone" /\ w2s[j].t = "ProvideFile"
       /\ w2s[j].job = w2s[i].job /\ w2s[j].uuid \in w2s[i].outputs
       /\ i < j
       /\ \A k \in 1..(i - 1) : w2s[k].t # "ProvideFile"

\* C30, as stated: once the worker has handled KillJob(g) for its current
\* job g (the join included), no sandbox of g runs, at whatever stage the
\* job was when KillJob arrived.
C30_KilledJobStopped ==
    \A g \in wsrv.kill_seen : wk_pc # "join_recv" => ~JobRuns(g)

\* The failing case of C30: the sandboxes of g were started after KillJob(g)
\* had been handled, and run unkilled.
C30_StartedAfterKill ==
    \E g \in wsrv.kill_seen :
       /\ JobRuns(g) /\ wk_pc = "recv"
       /\ wk_sandboxes # <<>>
       /\ \A i \in 1..Len(wk_sandboxes) : ~wk_sandboxes[i].killed


\* Every input of every execution of the current job has its key in dep_keys
\* and the handle of that key in the job's handle map.
AllInputsHeld ==
    \A u \in JobInputs :
        /\ u \in DOMAIN wk_job.dep_keys
        /\ u \in DOMAIN wk_handles
        /\ wk_handles[u] = wk_job.dep_keys[u]

SomeResult == \E i \in 1..Len(wk_mgr.results) : wk_mgr.results[i] # NoResult

\* The sandboxes exist, or an execution has reported, only with every input held.
StartedOnlyWithInputs ==
    (wk_sandboxes # <<>> \/ wk_thread = "running" \/ SomeResult) => AllInputsHeld

\* What one step of the worker does to the start of the job: the sandboxes
\* appear only in a step that leaves nothing missing; the step that takes
\* the job starts it exactly when the store has the key of every input; the
\* step that receives the last missing key starts it.
StartStep ==
    /\ (wk_sandboxes = <<>> /\ wk_sandboxes' # <<>>)
            => (DOMAIN wk_missing' = {} /\ AllInputsHeld')
    /\ (wk_job = NoJob /\ wk_job' # NoJob)
            => (wk_sandboxes' # <<>>
                    <=> \A u \in JobInputs' : wk_job'.dep_keys[u] \in wk_store)
    /\ (wk_job # NoJob /\ DOMAIN wk_missing # {} /\ DOMAIN wk_missing' = {})
            => wk_sandboxes' # <<>>
    /\ (wk_job # NoJob /\ wk_sandboxes = <<>> /\ DOMAIN wk_missing' # {})
            => wk_sandboxes' = <<>>

\* C2: the sandboxes of a job start only when every input of every execution
\* of the group has a key in dep_keys and a handle in the job's handle map:
\* right after Work when the store lacks no dependency, otherwise in the step
\* that receives the last missing key; nothing runs or reports before that.
C2_StartOnlyWithAllInputs == []StartedOnlyWithInputs /\ [][StartStep]_vars

\* The job of two executions waited for both keys and has started with the
\* handle of every input.
C2_Witness ==
    /\ wk_job.uuid = "j1"
    /\ wk_sandboxes # <<>>
    /\ CountOf(w2s, "AskFile") = 2
    /\ wsrv.provided = 2
    /\ AllInputsHeld

\* ----------------------------------------------- claims on the scheduler

At(t, u) == {i \in 1..Len(s2c) : s2c[i].t = t /\ s2c[i].uuid = u}

OfType(t) == {i \in 1..Len(s2c) : s2c[i].t = t}

Notifications == OfType("NotifyStart") \cup OfType("NotifyDone") \cup OfType("NotifySkip")

\* NotifyStart of an execution precedes its NotifyDone, and its NotifyDone
\* precedes every ProvideFile of a file it produced.
NotifyOrder ==
    /\ \A e \in Execs : \A j \in At("NotifyDone", e) :
            /\ \E i \in At("NotifyStart", e) : i < j
            /\ \A i \in At("NotifyStart", e) : i < j
    /\ \A e \in Execs : \A f \in Outputs(e) : \A i \in At("ProvideFile", f) :
            /\ \A j \in At("NotifyDone", e) : j < i
            /\ (e \in WatchedExecs /\ sc_state[e] = "done") => At("NotifyDone", e) # {}

AsksReceived == Cardinality({i \in 1..sc_rd : c2s[i].t = "AskFile"})

RECURSIVE DependsWithin(_, _, _)
DependsWithin(c, e, n) ==
    /\ n > 0
    /\ \E f \in Inputs(c) \ SideInputs(c) : \E q \in Producers(f) :
            q = e \/ DependsWithin(q, e, n - 1)

Unsuccessful(e) ==
    \/ sc_state[e] = "skipped"
    \/ sc_state[e] = "done" /\ sc_results[e].status.kind # "Success"

Dispatched(e) == \E i \in 1..Len(sc_work) : sc_work[i][2] = e

SkippedDownstream ==
    \A e \in Execs : Unsuccessful(e) =>
        \A c \in Execs : DependsWithin(c, e, Cardinality(Execs)) =>
            /\ sc_state[c] = "skipped"
            /\ ~Dispatched(c)
            /\ c \notin sc_cached
            /\ At("NotifyStart", c) = {}
            /\ c \in WatchedExecs => Cardinality(At("NotifySkip", c)) = 1

SkippedStays ==
    \A c \in Execs : sc_state[c] = "skipped" => sc_state'[c] = "skipped"

\* C4: once an execution has finished without success or was skipped, every
\* execution that depends on one of its outputs, transitively and through
\* inputs that are not side inputs, is skipped, was never handed to a worker
\* nor completed from the cache, stays skipped, and its NotifySkip was sent
\* when it is watched.
C4_SkipPropagation == []SkippedDownstream /\ [][SkippedStays]_vars

\* A has failed on a worker: B and C are skipped and the client was told of
\* C, while D, which reads the output of A as a side input, has run.
C4_Witness ==
    /\ sc_state["A"] = "done" /\ sc_results["A"].status.kind = "ReturnCode"
    /\ sc_state["B"] = "skipped" /\ sc_state["C"] = "skipped"
    /\ At("NotifySkip", "C") # {}
    /\ sc_state["D"] = "done"

\* Some worker is idle and the ready queue is not empty, in a live session.
IdleAndReady ==
    /\ sc_phase = "run"
    /\ Len(sc_ready) > 0
    /\ \E w \in Workers : sc_workers[w].conn = "idle"

\* A step of the scheduler: one that changes what the scheduler owns.
SchedulerStep ==
    <<sc_state, sc_ready, sc_keys, sc_results, sc_cached, sc_workers, sc_work, s2c, sc_rd>>'
        # <<sc_state, sc_ready, sc_keys, sc_results, sc_cached, sc_workers, sc_work, s2c, sc_rd>>

\* The head of the queue leaves it: for a worker, with a Work message, or
\* completed from the cache.
HeadDispatched ==
    LET e == Head(sc_ready)
    IN /\ \A i \in 1..Len(sc_ready') : sc_ready'[i] # e
       /\ \/ /\ sc_state'[e] = "running"
             /\ Len(sc_work') = Len(sc_work) + 1
             /\ sc_work'[Len(sc_work')][2] = e
             /\ sc_workers[sc_work'[Len(sc_work')][1]].conn = "idle"
             /\ sc_workers'[sc_work'[Len(sc_work')][1]] = [conn |-> "busy", job |-> e]
          \/ /\ sc_state'[e] = "done"
             /\ e \in sc_cached'
             /\ sc_work' = sc_work

\* C5: whenever a worker is idle and the ready queue is not empty the
\* scheduler can take a scheduling step, and its next step removes the head
\* of the ready queue, handing it to an idle worker or completing it from
\* the cache.
C5_WorkConserving ==
    /\ [](IdleAndReady => ENABLED (SchTick /\ SchFrame))
    /\ [][(IdleAndReady /\ SchedulerStep) => HeadDispatched]_vars

\* D went to a worker ahead of B, which is still in the queue with the other
\* worker idle.
C5_Witness ==
    /\ IdleAndReady
    /\ sc_ready = <<"B">>
    /\ sc_state["D"] = "running"
    /\ Len(sc_work) = 2

WorkCount(e) == Cardinality({i \in 1..Len(sc_work) : sc_work[i][2] = e})

QueueCount(e) == Cardinality({i \in 1..Len(sc_ready) : sc_ready[i] = e})

Owners(e) == {w \in Workers : sc_workers[w].conn = "busy" /\ sc_workers[w].job = e}

\* In a live session a running execution has exactly one worker, a ready one
\* is in the queue exactly once, and nothing else is queued or owned.
NoJobLost ==
    sc_phase = "run" =>
        \A e \in Execs :
            /\ Cardinality(Owners(e)) = (IF sc_state[e] = "running" THEN 1 ELSE 0)
            /\ QueueCount(e) = (IF sc_state[e] = "ready" THEN 1 ELSE 0)

NotifiedOnce ==
    \A e \in Execs :
        /\ Cardinality(At("NotifyStart", e)) <= 1
        /\ Cardinality(At("NotifyDone", e)) <= 1

\* A busy worker disconnects in a live session: its job is ready again.
RequeuedOnDisconnect ==
    \A w \in Workers :
        (sc_workers[w].conn = "busy" /\ sc_workers'[w].conn = "gone" /\ sc_phase = "run")
            => /\ sc_state'[sc_workers[w].job] = "ready"
               /\ \E i \in 1..Len(sc_ready') : sc_ready'[i] = sc_workers[w].job

\* A completed execution stays completed with the result it has.
CompletedOnce ==
    \A e \in Execs :
        sc_state[e] = "done" => sc_state'[e] = "done" /\ sc_results'[e] = sc_results[e]

C8_CacheHit ==
    /\ \A e \in sc_cached :
            /\ WorkCount(e) = 0
            /\ sc_state[e] = "done"
            /\ sc_results[e].was_cached
            /\ e \in WatchedExecs =>
                    /\ At("NotifyStart", e) # {}
                    /\ \E j \in At("NotifyDone", e) : s2c[j].result = sc_results[e]
    /\ \A e \in Execs \ sc_cached : sc_results[e] # NoResult => ~sc_results[e].was_cached

\* A and B were both completed from the cache, no Work was sent for them,
\* and the failure of B recorded there has skipped C.
C8_Witness ==
    /\ sc_cached = {"A", "B"}
    /\ sc_results["B"].status.kind = "ReturnCode"
    /\ sc_results["B"].was_cached
    /\ sc_state["C"] = "skipped"
    /\ WorkCount("A") = 0 /\ WorkCount("B") = 0

DoneSent == OfType("Done") # {}

\* The Done message lists every file the client asked to write, once each.
DoneListsEveryFile ==
    \A d \in OfType("Done") :
        /\ {s2c[d].result[i].uuid : i \in 1..Len(s2c[d].result)} = WriteFiles
        /\ Len(s2c[d].result) = Cardinality(WriteFiles)

====
